---- MODULE Spec2Model ----
(***************************************************************************)
(* A model of the jq-proxy request pipeline: the transport adapter         *)
(* (proxy.Handler), the request processor (proxy.Service.HandleRequest),   *)
(* the file-backed endpoint resolver (config.FileProvider), the forwarder  *)
(* seen through its interface (client.HTTPClient.ForwardRequest) and the   *)
(* jq transformer (transform.JQTransformer).  Three further specifications *)
(* look closer at parts of it: SpecConcurrent runs two requests at once,   *)
(* SpecClient is one call of client.Client.ForwardRequest down to the      *)
(* request it puts on the wire, and SpecProvider is config.FileProvider    *)
(* with its reader-writer lock under concurrent callers.                   *)
(***************************************************************************)
EXTENDS Integers, Sequences, FiniteSets, TLC

VARIABLES
    file,         \* the configuration file on disk
    config,       \* FileProvider.config: the loaded configuration
    pc,           \* per request: the position inside handleProxyRequest / HandleRequest
    endpointName, \* per request: the {endpoint} path variable
    proxyReq,     \* per request: the parsed models.ProxyRequest
    endpoint,     \* per request: the endpoint GetEndpoint returned
    fwd,          \* per request: what httpClient.ForwardRequest returned
    responseData, \* per request: the decoded response value
    result,       \* per request: what HandleRequest returned
    written,      \* per request: the HTTP response the handler wrote
    trace,        \* per request: the pipeline steps run so far, in order
    forwardCalls, \* per request: the number of calls made to the forwarder
    received,     \* per request: the inbound HTTP request as the client sent it
    outbound,     \* per request: the number of calls of http.Client.Do
    call,         \* client: the arguments of the ForwardRequest call
    cpc,          \* client: the position inside ForwardRequest / Do
    targetURL,    \* client: what buildTargetURL returned
    filteredHeaders, \* client: what filterHeaders returned
    request,      \* client: the http.Request Do has built
    wire,         \* client: the requests handed to the network, in order
    reply,        \* client: what ForwardRequest returned
    mutex,        \* provider: the state of FileProvider.mutex
    goroutine,    \* provider: per caller, its call and its position in it
    now,          \* deadline: the time, in seconds
    inbound,      \* deadline: the context of the inbound request
    requestCtx,   \* deadline: the context forwardRequest derives for the call
    outcall,      \* deadline: the outbound call
    provider,     \* providers: which ConfigProvider was constructed
    environ,      \* providers: the environment variables of the process
    fepConfig,    \* providers: FullEnvProvider.config
    last,         \* providers: the last call made on the provider and its result
    loadedFrom,   \* providers: the sources read by the last successful load
    metrics,      \* metrics: the fields of logging.Metrics
    mu,           \* metrics: the state of Metrics.mu
    worker,       \* metrics: per caller, its call and its position in it
    completed,    \* metrics: the numbers of RecordRequest and RecordError calls returned
    heap,         \* env provider: the ProxyConfig objects allocated, by address
    fpConfig,     \* env provider: fileProvider.config, an address or 0 for nil
    thread        \* env provider: per caller, its call and its position in it

\* The variables of one ForwardRequest call.
clientVars == <<call, cpc, targetURL, filteredHeaders, request, wire, reply>>

\* The variables of the provider's lock and its callers.
lockVars == <<mutex, goroutine>>

\* The variables of the deadline of an outbound call.
deadlineVars == <<now, inbound, requestCtx, outcall>>

\* The variables of the metrics collector and its callers.
metricsVars == <<metrics, mu, worker, completed>>

\* The variables of the file+environment provider under concurrent callers.
heapVars == <<heap, fpConfig, thread>>

\* The variables of the configuration providers called one call at a time.
providerVars == <<provider, environ, fepConfig, last, loadedFrom>>

\* The variables the request pipeline, the client and the provider leave alone.
otherVars == <<deadlineVars, providerVars, metricsVars, heapVars>>


\* The variables of the requests in flight.
requestVars == <<pc, endpointName, proxyReq, endpoint, fwd, responseData, result,
                 written, trace, forwardCalls, received, outbound>>

vars == <<file, config, requestVars, clientVars, lockVars, otherVars>>

\* All but the variables of the deadline.
nonDeadlineVars ==
    <<file, config, requestVars, clientVars, lockVars, providerVars, metricsVars, heapVars>>

\* All but the file, the configuration and the variables of the providers.
nonProviderVars == <<requestVars, clientVars, lockVars, deadlineVars, metricsVars, heapVars>>

\* All but the variables of the metrics collector.
nonMetricsVars ==
    <<file, config, requestVars, clientVars, lockVars, deadlineVars, providerVars, heapVars>>

\* All but the file, the environment, the lock and the variables of the
\* file+environment provider under concurrent callers.
nonHeapVars ==
    <<config, requestVars, clientVars, goroutine, deadlineVars, provider, fepConfig, last,
      loadedFrom, metricsVars>>

\* The requests in flight.
Reqs == {"r1"}

\* Go's nil.
None == [t |-> "nil"]

(***************************************************************************)
(* JSON values (interface{} trees): null, numbers, strings and arrays.     *)
(***************************************************************************)
Null == [t |-> "null"]
Num(n) == [t |-> "num", n |-> n]
Str(s) == [t |-> "str", s |-> s]
Arr(a) == [t |-> "arr", a |-> a]

(***************************************************************************)
(* The configuration: models.ProxyConfig.Endpoints, a map from key to      *)
(* models.Endpoint.                                                        *)
(***************************************************************************)
Endpoint(n, tg) == [Name |-> n, Target |-> tg]

\* A URL text is the sequence of its pieces: a scheme name, "://", a host name,
\* ":" and a port, "/" and path segments.  URL(scheme, rest) is scheme://rest.
URL(scheme, rest) == <<scheme, "://">> \o rest

EmptyEndpoints == [k \in {} |-> Endpoint("", <<>>)]

EndpointsOne == [k \in {"a"} |-> Endpoint("a", URL("https", <<"a.example.com">>))]

EndpointsTwo ==
    [k \in {"a", "b"} |->
        IF k = "a" THEN Endpoint("a", URL("https", <<"a2.example.com", "/", "v1">>))
                   ELSE Endpoint("svc-b", URL("http", <<"b.example.com", "/">>))]

EndpointsBadTarget == [k \in {"a"} |-> Endpoint("a", URL("ftp", <<"a.example.com">>))]

\* An endpoint whose target starts with http:// and has a port that is not a number.
EndpointsBadPort == [k \in {"a"} |-> Endpoint("a", URL("http", <<"a.example.com", ":", "80a">>))]

\* What the configuration file can hold.
FileMissing == [kind |-> "missing", endpoints |-> EmptyEndpoints]
FileBadJSON == [kind |-> "badjson", endpoints |-> EmptyEndpoints]
FileJSON(e) == [kind |-> "json", endpoints |-> e]

Files ==
    {FileMissing, FileBadJSON, FileJSON(EmptyEndpoints), FileJSON(EndpointsBadTarget),
     FileJSON(EndpointsOne), FileJSON(EndpointsTwo), FileJSON(EndpointsBadPort)}

\* FileProvider.config before any successful load.
NoConfig == [loaded |-> FALSE, Endpoints |-> EmptyEndpoints]

\* strings.HasPrefix(e.Target, "http://") || strings.HasPrefix(e.Target, "https://")
HasPrefixHTTP(target) ==
    Len(target) >= 2 /\ target[1] \in {"http", "https"} /\ target[2] = "://"

\* models.Endpoint.Validate
EndpointValidate(e) ==
    IF e.Name = "" THEN "endpoint name is required"
    ELSE IF e.Target = <<>> THEN "endpoint target is required"
    ELSE IF ~HasPrefixHTTP(e.Target) THEN "endpoint target must be a valid HTTP/HTTPS URL"
    ELSE "ok"

\* models.ProxyConfig.Validate (the endpoint part)
ConfigValidate(e) ==
    IF DOMAIN e = {} THEN "at least one endpoint must be configured"
    ELSE IF \E k \in DOMAIN e : EndpointValidate(e[k]) # "ok" THEN "invalid endpoint"
    ELSE "ok"

\* FileProvider.LoadConfig's outcome on the file as it is now: the configuration
\* and the error ("ok" for a nil error).
ReadConfig(f) ==
    IF f.kind = "missing" THEN [err |-> "configuration file not found", Endpoints |-> EmptyEndpoints]
    ELSE IF f.kind = "badjson" THEN [err |-> "failed to parse configuration", Endpoints |-> EmptyEndpoints]
    ELSE IF ConfigValidate(f.endpoints) # "ok"
        THEN [err |-> "failed to parse configuration", Endpoints |-> EmptyEndpoints]
    ELSE [err |-> "ok", Endpoints |-> f.endpoints]

\* The value of fp.config after LoadConfig ran on file f.
StoredConfig(f, old) ==
    IF ReadConfig(f).err = "ok"
        THEN [loaded |-> TRUE, Endpoints |-> ReadConfig(f).Endpoints]
        ELSE old

\* FileProvider.GetEndpoint
GetEndpoint(cfg, name) ==
    IF ~cfg.loaded THEN [exists |-> FALSE, endpoint |-> None]
    ELSE IF name \in DOMAIN cfg.Endpoints
        THEN [exists |-> TRUE, endpoint |-> cfg.Endpoints[name]]
        ELSE [exists |-> FALSE, endpoint |-> None]

(***************************************************************************)
(* The jq engine (gojq) as the transformer uses it: Parse, Compile, Run.   *)
(***************************************************************************)
\* The query strings of the model: one that does not parse, one that parses
\* and does not compile (an undefined function), and three programs.
Queries == {"", ".invalid[", ".users | invalid_function", ".", "empty", ".[]"}

\* gojq.Parse(query): "ok" or the parse error.
Parse(query) ==
    IF query = ".invalid[" THEN "unexpected token" ELSE "ok"

\* gojq.Compile(q) of a parsed query: "ok" or the compile error.
Compile(query) ==
    IF query = ".users | invalid_function"
        THEN "function not defined: invalid_function/0" ELSE "ok"

\* code.Run(data): the values the iterator yields, and the error it yields
\* after them ("ok" when it ends without one).
Run(query, data) ==
    IF query = "." THEN [results |-> <<data>>, err |-> "ok"]
    ELSE IF query = "empty" THEN [results |-> <<>>, err |-> "ok"]
    ELSE IF data.t = "arr" THEN [results |-> data.a, err |-> "ok"]
    ELSE [results |-> <<>>, err |-> "cannot iterate over"]

\* A collapsing that always returns the array of the results.
CollapseAlwaysArray(results) == Arr(results)

\* The switch that ends TransformWithQuery.
CollapseResults(results) ==
    IF Len(results) = 0 THEN Null
    ELSE IF Len(results) = 1 THEN results[1]
    ELSE Arr(results)

\* JQTransformer.TransformWithQuery
TransformWithQuery(data, query) ==
    IF query = "" THEN [value |-> data, err |-> <<>>]
    ELSE IF Parse(query) # "ok"
        THEN [value |-> Null, err |-> <<"invalid jq query: ", Parse(query)>>]
    ELSE IF Compile(query) # "ok"
        THEN [value |-> Null, err |-> <<"failed to compile jq query: ", Compile(query)>>]
    ELSE IF Run(query, data).err # "ok"
        THEN [value |-> Null, err |-> <<"jq query execution failed: ", Run(query, data).err>>]
    ELSE [value |-> CollapseResults(Run(query, data).results), err |-> <<>>]

\* A validation that accepts every query.
ValidateQueryAcceptsAll(query) == <<>>

\* JQTransformer.ValidateQuery: the error (<<>> for nil).
ValidateQuery(query) ==
    IF query = "" THEN <<>>
    ELSE IF Parse(query) # "ok" THEN <<"invalid jq query: ", Parse(query)>>
    ELSE <<>>

\* UnifiedTransformer.TransformRequest
TransformRequest(data, req) ==
    IF req.TransformationMode # "jq"
        THEN [value |-> Null, err |-> <<"unsupported transformation mode: ", req.TransformationMode>>]
        ELSE TransformWithQuery(data, req.JQQuery)

\* UnifiedTransformer.ValidateTransformation
ValidateTransformation(req) ==
    IF req.TransformationMode # "jq"
        THEN <<"unsupported transformation mode: ", req.TransformationMode>>
        ELSE ValidateQuery(req.JQQuery)

(***************************************************************************)
(* The inbound envelope: models.ProxyRequest and its validation.           *)
(***************************************************************************)
Methods == {"GET", "post", "", "FETCH"}

Modes == {"", "jq", "xml"}

ProxyRequest(m, mode, q) == [Method |-> m, TransformationMode |-> mode, JQQuery |-> q]

\* The request bodies a client can send: one that is not JSON, an envelope with
\* each method token, and an envelope with each mode and query.
Envelopes ==
    {[json |-> FALSE, req |-> ProxyRequest("", "", "")]} \cup
    {[json |-> TRUE, req |-> ProxyRequest(m, "jq", ".")] : m \in Methods} \cup
    {[json |-> TRUE, req |-> ProxyRequest("GET", mode, q)] : mode \in Modes, q \in Queries}

\* strings.ToUpper on the method tokens of the model.
ToUpper(m) == IF m = "post" THEN "POST" ELSE m

ValidMethods == {"GET", "POST", "PUT", "DELETE", "PATCH", "HEAD", "OPTIONS"}

\* A validation that does not ask for a query.
ProxyRequestValidateNoQueryCheck(pr) ==
    LET defaulted == IF pr.TransformationMode = ""
                        THEN [pr EXCEPT !.TransformationMode = "jq"] ELSE pr
    IN  IF pr.Method = "" THEN [err |-> "method is required", req |-> pr]
        ELSE IF ToUpper(pr.Method) \notin ValidMethods
            THEN [err |-> "invalid HTTP method", req |-> pr]
        ELSE IF defaulted.TransformationMode # "jq"
            THEN [err |-> "invalid transformation mode", req |-> defaulted]
        ELSE [err |-> "ok", req |-> defaulted]

\* ProxyRequest.Validate: the error ("ok" for nil) and the request as Validate leaves it.
ProxyRequestValidate(pr) ==
    LET defaulted == IF pr.TransformationMode = ""
                        THEN [pr EXCEPT !.TransformationMode = "jq"] ELSE pr
    IN  IF pr.Method = "" THEN [err |-> "method is required", req |-> pr]
        ELSE IF ToUpper(pr.Method) \notin ValidMethods
            THEN [err |-> "invalid HTTP method", req |-> pr]
        ELSE IF defaulted.TransformationMode # "jq"
            THEN [err |-> "invalid transformation mode", req |-> defaulted]
        ELSE IF defaulted.JQQuery = ""
            THEN [err |-> "jq_query is required", req |-> defaulted]
        ELSE [err |-> "ok", req |-> defaulted]

\* models.ParseProxyRequest
ParseProxyRequest(env) ==
    IF ~env.json THEN [err |-> "invalid JSON", req |-> env.req]
    ELSE ProxyRequestValidate(env.req)

(***************************************************************************)
(* The forwarder seen from the request processor: client.Response, or an   *)
(* error, returned by httpClient.ForwardRequest.                           *)
(***************************************************************************)
ResponseStatuses == {200, 404, 500}

ContentTypes == {"application/json", "Application/JSON; charset=utf-8", "text/plain"}

Bodies == {"", "[1,2]", "[7]", "{bad"}

Response(sc, ct, body) == [StatusCode |-> sc, ContentType |-> ct, Body |-> body]

Responses == {Response(sc, ct, b) : sc \in ResponseStatuses, ct \in ContentTypes, b \in Bodies}

\* The transport errors Client.Do wraps: a refused connection and an expired deadline.
TransportErrors == {"connection refused", "context deadline exceeded"}

\* What ForwardRequest can return: (nil, err) or (response, nil).
ForwardOutcomes ==
    {[response |-> None, err |-> <<"request failed: ", e>>] : e \in TransportErrors} \cup
    {[response |-> resp, err |-> <<>>] : resp \in Responses}

\* A check that also takes a body that reads as JSON for a JSON response.
IsJSONResponseOrJSONBody(resp) ==
    \/ resp.ContentType \in {"application/json", "Application/JSON; charset=utf-8"}
    \/ resp.Body \in {"[1,2]", "[7]"}

\* Response.IsJSONResponse: strings.Contains(strings.ToLower(contentType), "application/json")
IsJSONResponse(resp) ==
    resp.ContentType \in {"application/json", "Application/JSON; charset=utf-8"}

\* json.Unmarshal on the bodies of the model.
Unmarshal(body) ==
    IF body = "[1,2]" THEN [value |-> Arr(<<Num(1), Num(2)>>), err |-> <<>>]
    ELSE IF body = "[7]" THEN [value |-> Arr(<<Num(7)>>), err |-> <<>>]
    ELSE [value |-> Null, err |-> <<"invalid character">>]

\* Response.ParseJSONBody
ParseJSONBody(resp) ==
    IF resp.Body = "" THEN [value |-> Null, err |-> <<>>]
    ELSE IF Unmarshal(resp.Body).err # <<>>
        THEN [value |-> Null,
              err |-> <<"failed to parse JSON response: ">> \o Unmarshal(resp.Body).err]
    ELSE Unmarshal(resp.Body)

(***************************************************************************)
(* The forwarder from the inside: client.buildTargetURL.                   *)
(***************************************************************************)
\* The index of the first "/" of a URL text, Len + 1 when it has none.
FirstSlash(text) ==
    IF \E i \in 1..Len(text) : text[i] = "/"
        THEN CHOOSE i \in 1..Len(text) :
                 text[i] = "/" /\ \A j \in 1..(i - 1) : text[j] # "/"
        ELSE Len(text) + 1

\* The port check of url.Parse: a port is made of digits.
ValidPort(port) == port \in {"", "80", "8080"}

\* A parsed URL (net/url.URL).
ParsedURL(scheme, host, path, query) ==
    [Scheme |-> scheme, Host |-> host, Path |-> path, RawQuery |-> query]

\* url.Parse: the error ("ok" for nil) and the URL.  A text with no scheme is a
\* relative reference and parses as a path; one that begins with "://" has
\* no scheme to read.
UrlParse(text) ==
    IF text = <<>> THEN [err |-> "ok", url |-> ParsedURL("", <<>>, <<>>, <<>>)]
    ELSE IF text[1] = "://"
        THEN [err |-> "missing protocol scheme", url |-> ParsedURL("", <<>>, <<>>, <<>>)]
    ELSE IF Len(text) >= 2 /\ text[2] = "://"
        THEN LET rest == SubSeq(text, 3, Len(text))
                 authority == SubSeq(rest, 1, FirstSlash(rest) - 1)
                 path == SubSeq(rest, FirstSlash(rest), Len(rest))
             IN  IF Len(authority) >= 3 /\ authority[2] = ":" /\ ~ValidPort(authority[3])
                     THEN [err |-> "invalid port", url |-> ParsedURL("", <<>>, <<>>, <<>>)]
                     ELSE [err |-> "ok", url |-> ParsedURL(text[1], authority, path, <<>>)]
    ELSE [err |-> "ok", url |-> ParsedURL("", <<>>, text, <<>>)]

\* URL.String
UrlString(u) ==
    (IF u.Scheme # "" THEN <<u.Scheme, "://">> ELSE <<>>)
        \o u.Host
        \o (IF u.Path # <<>> /\ u.Path[1] # "/" /\ u.Host # <<>> THEN <<"/">> ELSE <<>>)
        \o u.Path
        \o (IF u.RawQuery # <<>> THEN <<"?">> \o u.RawQuery ELSE <<>>)

\* strings.HasSuffix(s, "/") and strings.HasPrefix(s, "/") on a path.
HasSuffixSlash(path) == path # <<>> /\ path[Len(path)] = "/"
HasPrefixSlash(path) == path # <<>> /\ path[1] = "/"

\* The query parameters of a call (url.Values): none, or limit=10, or
\* limit=10 with filter=active.
NoQuery == [k \in {} |-> <<>>]
Queries1 == [k \in {"limit"} |-> <<"10">>]
Queries2 == [k \in {"limit", "filter"} |-> IF k = "limit" THEN <<"10">> ELSE <<"active">>]

\* The keys of the model in the order sort.Strings gives them.
SortedKeys == <<"filter", "limit">>

\* The key=value pairs of the keys from the i-th on, in order.
RECURSIVE PairsFrom(_, _)
PairsFrom(q, i) ==
    IF i > Len(SortedKeys) THEN <<>>
    ELSE (IF SortedKeys[i] \in DOMAIN q
             THEN [j \in 1..Len(q[SortedKeys[i]]) |->
                      <<SortedKeys[i], "=", q[SortedKeys[i]][j]>>]
             ELSE <<>>) \o PairsFrom(q, i + 1)

RECURSIVE JoinAmp(_)
JoinAmp(pairs) ==
    IF pairs = <<>> THEN <<>>
    ELSE IF Len(pairs) = 1 THEN pairs[1]
    ELSE pairs[1] \o <<"&">> \o JoinAmp(Tail(pairs))

\* url.Values.Encode: key=value pairs joined by "&", keys sorted.
Encode(q) == JoinAmp(PairsFrom(q, 1))

\* The join of buildTargetURL with no separator inserted or removed.
JoinPathAsIs(basePath, path) == basePath \o path

\* The "Join path" block of buildTargetURL: base.Path after it.
JoinPath(basePath, path) ==
    IF path = <<>> THEN basePath
    ELSE IF HasSuffixSlash(basePath) /\ HasPrefixSlash(path) THEN basePath \o Tail(path)
    ELSE IF ~HasSuffixSlash(basePath) /\ ~HasPrefixSlash(path) THEN basePath \o <<"/">> \o path
    ELSE basePath \o path

\* client.buildTargetURL: the URL text (<<>> for "") and the error (<<>> for nil).
BuildTargetURL(baseURL, path, queryParams) ==
    IF UrlParse(baseURL).err # "ok"
        THEN [url |-> <<>>, err |-> <<"invalid base URL: ", UrlParse(baseURL).err>>]
        ELSE LET base == UrlParse(baseURL).url
                 joined == [base EXCEPT !.Path = JoinPath(base.Path, path)]
                 full == IF DOMAIN queryParams # {}
                            THEN [joined EXCEPT !.RawQuery = Encode(queryParams)]
                            ELSE joined
             IN  [url |-> UrlString(full), err |-> <<>>]

(***************************************************************************)
(* The forwarder from the inside: header names, client.filterHeaders and   *)
(* the copy of the headers into the outbound request.  A header name is    *)
(* the sequence of its characters; a header set (http.Header) is a map     *)
(* from names to value lists, or None for nil.                             *)
(***************************************************************************)
Lowers == <<"a", "b", "c", "d", "e", "f", "g", "h", "i", "j", "k", "l", "m",
            "n", "o", "p", "q", "r", "s", "t", "u", "v", "w", "x", "y", "z">>

Uppers == <<"A", "B", "C", "D", "E", "F", "G", "H", "I", "J", "K", "L", "M",
            "N", "O", "P", "Q", "R", "S", "T", "U", "V", "W", "X", "Y", "Z">>

LowerChar(c) ==
    IF \E i \in 1..Len(Uppers) : Uppers[i] = c
        THEN Lowers[CHOOSE i \in 1..Len(Uppers) : Uppers[i] = c] ELSE c

UpperChar(c) ==
    IF \E i \in 1..Len(Lowers) : Lowers[i] = c
        THEN Uppers[CHOOSE i \in 1..Len(Lowers) : Lowers[i] = c] ELSE c

\* strings.ToLower on a header name.
ToLowerName(name) == [i \in 1..Len(name) |-> LowerChar(name[i])]

\* strings.HasPrefix(name, "jpx-")
HasPrefixJpx(name) == Len(name) >= 4 /\ SubSeq(name, 1, 4) = <<"j", "p", "x", "-">>

\* textproto.CanonicalMIMEHeaderKey, which http.Header.Add, Set and Get apply
\* to the key: the first letter and every letter after "-" in upper case, the
\* others in lower case.
CanonicalMIMEHeaderKey(name) ==
    [i \in 1..Len(name) |->
        IF i = 1 \/ name[i - 1] = "-" THEN UpperChar(name[i]) ELSE LowerChar(name[i])]

\* The header names of the model: jpx-d, JPX-D, Jpx-a, jpx, x-jpx-a, x-a, X-A.
HeaderNames ==
    {<<"j", "p", "x", "-", "d">>, <<"J", "P", "X", "-", "D">>, <<"J", "p", "x", "-", "a">>,
     <<"j", "p", "x">>, <<"x", "-", "j", "p", "x", "-", "a">>,
     <<"x", "-", "a">>, <<"X", "-", "A">>}

ValueLists == {<<"1">>, <<"1", "2">>}

\* The most headers a header set of the model holds.
MaxHeaders == 2

EmptyHeader == [n \in {} |-> <<>>]

\* A non-nil http.Header with the map m.
Header(m) == [t |-> "header", m |-> m]

HeaderSets ==
    {None} \cup
    {Header(m) : m \in UNION {[S -> ValueLists] :
                    S \in {T \in SUBSET HeaderNames : Cardinality(T) <= MaxHeaders}}}

\* A filter that compares the name as it is with "jpx-".
FilterHeadersCaseSensitive(headers) ==
    IF headers = None THEN None
    ELSE Header([n \in {k \in DOMAIN headers.m : ~HasPrefixJpx(k)} |-> headers.m[n]])

\* client.filterHeaders
FilterHeaders(headers) ==
    IF headers = None THEN None
    ELSE Header([n \in {k \in DOMAIN headers.m : ~HasPrefixJpx(ToLowerName(k))} |->
                    headers.m[n]])

\* The orders in which a range over the map can visit its keys.
KeyOrders(headers) ==
    IF headers = None THEN {<<>>}
    ELSE {s \in [1..Cardinality(DOMAIN headers.m) -> DOMAIN headers.m] :
             \A i, j \in 1..Cardinality(DOMAIN headers.m) : i # j => s[i] # s[j]}

\* req.Header.Add(key, value) for each value of key, in order.
AddValues(h, key, values) ==
    LET k == CanonicalMIMEHeaderKey(key)
    IN  IF k \in DOMAIN h THEN [h EXCEPT ![k] = @ \o values]
        ELSE [n \in DOMAIN h \cup {k} |-> IF n = k THEN values ELSE h[n]]

\* The "Copy headers" loop of Do over the keys in the order given.
RECURSIVE CopyHeaders(_, _, _)
CopyHeaders(headers, order, h) ==
    IF order = <<>> THEN h
    ELSE CopyHeaders(headers, Tail(order), AddValues(h, order[1], headers.m[order[1]]))

ContentTypeName == <<"C", "o", "n", "t", "e", "n", "t", "-", "T", "y", "p", "e">>

\* Do: "Set Content-Type for JSON body if not already set".
SetContentType(h, body) ==
    IF body # None /\ ContentTypeName \notin DOMAIN h
        THEN [n \in DOMAIN h \cup {ContentTypeName} |->
                 IF n = ContentTypeName THEN <<"application/json">> ELSE h[n]]
        ELSE h

(***************************************************************************)
(* The typed errors of the request processor and their methods.            *)
(***************************************************************************)
StatusOK == 200
StatusBadRequest == 400
StatusNotFound == 404
StatusUnprocessableEntity == 422
StatusInternalServerError == 500
StatusBadGateway == 502

EndpointNotFoundError(name, available) ==
    [kind |-> "EndpointNotFoundError", EndpointName |-> name, AvailableEndpoints |-> available]

TransformationError(message, details) ==
    [kind |-> "TransformationError", Message |-> message, Details |-> details]

UpstreamError(message, sc, details) ==
    [kind |-> "UpstreamError", Message |-> message, StatusCode |-> sc, Details |-> details]

\* An upstream status reported as it is, whatever it is.
UpstreamStatusUnguarded(e) == e.StatusCode

\* UpstreamError.HTTPStatusCode
UpstreamHTTPStatusCode(e) ==
    IF e.StatusCode >= 400 THEN e.StatusCode ELSE StatusBadGateway

\* A status taken from the error's StatusCode field whenever it has one.
HTTPStatusCodeOfField(e) ==
    IF e.kind = "EndpointNotFoundError" THEN StatusNotFound
    ELSE IF e.kind = "TransformationError" THEN StatusUnprocessableEntity
    ELSE e.StatusCode

\* ProxyError.HTTPStatusCode
HTTPStatusCode(e) ==
    IF e.kind = "EndpointNotFoundError" THEN StatusNotFound
    ELSE IF e.kind = "TransformationError" THEN StatusUnprocessableEntity
    ELSE UpstreamHTTPStatusCode(e)

\* An error code that puts transformation errors under the upstream code.
ErrorCodeConfused(e) ==
    IF e.kind = "EndpointNotFoundError" THEN "ENDPOINT_NOT_FOUND" ELSE "UPSTREAM_ERROR"

\* ProxyError.ErrorCode
ErrorCode(e) ==
    IF e.kind = "EndpointNotFoundError" THEN "ENDPOINT_NOT_FOUND"
    ELSE IF e.kind = "TransformationError" THEN "TRANSFORMATION_ERROR"
    ELSE "UPSTREAM_ERROR"

\* ProxyError.ErrorDetails
ErrorDetails(e) ==
    IF e.kind = "EndpointNotFoundError"
        THEN [available_endpoints |-> e.AvailableEndpoints]
        ELSE e.Details

\* error.Error
ErrorText(e) ==
    IF e.kind = "EndpointNotFoundError" THEN <<"endpoint '", e.EndpointName, "' not found">>
    ELSE e.Message

\* The err.(ProxyError) type assertion.
IsProxyError(e) == e.kind \in {"EndpointNotFoundError", "TransformationError", "UpstreamError"}

(***************************************************************************)
(* The transport adapter's writers.                                        *)
(***************************************************************************)
\* Handler.writeJSONResponse
WriteJSONResponse(statusCode, data) == [statusCode |-> statusCode, body |-> data]

\* w.WriteHeader(statusCode) with nothing written after it.
WriteHeader(statusCode) == [statusCode |-> statusCode, body |-> None]

\* Handler.writeErrorResponse
WriteErrorResponse(statusCode, code, message, details) ==
    WriteJSONResponse(statusCode,
        [error |-> [code |-> code, message |-> message, details |-> details]])

\* A handler that reports an unexpected error with the error's own text.
HandleProxyErrorLeaksText(e) ==
    IF IsProxyError(e)
        THEN WriteErrorResponse(HTTPStatusCode(e), ErrorCode(e), ErrorText(e), ErrorDetails(e))
        ELSE WriteErrorResponse(StatusInternalServerError, "INTERNAL_ERROR", ErrorText(e), None)

\* Handler.handleProxyError
HandleProxyError(e) ==
    IF IsProxyError(e)
        THEN WriteErrorResponse(HTTPStatusCode(e), ErrorCode(e), ErrorText(e), ErrorDetails(e))
        ELSE WriteErrorResponse(StatusInternalServerError, "INTERNAL_ERROR",
                                <<"An unexpected error occurred">>, None)

\* models.ProxyResponse
ProxyResponse(data, status) == [Data |-> data, Status |-> status]

\* What HandleRequest returns: (response, nil) or (nil, err); both nil before it returns.
NoResult == [resp |-> None, err |-> None]
Failure(e) == [resp |-> None, err |-> e]
Success(resp) == [resp |-> resp, err |-> None]

(***************************************************************************)
(* The state machine.                                                      *)
(***************************************************************************)
\* The endpoint names a client can put in the URL: the configured keys and one
\* that no configuration file holds.
EndpointNames == {"a", "b", "zzz"}

\* The HTTP methods the proxy routes accept.
InboundMethods == {"POST", "OPTIONS"}

\* No request is in flight in any slot of rs.
RequestsIdle(rs) ==
    /\ pc = [r \in rs |-> "idle"]
    /\ endpointName = [r \in rs |-> ""]
    /\ proxyReq = [r \in rs |-> ProxyRequest("", "", "")]
    /\ endpoint = [r \in rs |-> None]
    /\ fwd = [r \in rs |-> None]
    /\ responseData = [r \in rs |-> None]
    /\ result = [r \in rs |-> NoResult]
    /\ written = [r \in rs |-> None]
    /\ trace = [r \in rs |-> <<>>]
    /\ forwardCalls = [r \in rs |-> 0]
    /\ received = [r \in rs |-> None]
    /\ outbound = [r \in rs |-> 0]

\* No ForwardRequest call is under way.
ClientIdle ==
    /\ call = None
    /\ cpc = "idle"
    /\ targetURL = None
    /\ filteredHeaders = None
    /\ request = None
    /\ wire = <<>>
    /\ reply = None

\* No outbound call is being timed.
DeadlineIdle ==
    /\ now = 0
    /\ inbound = None
    /\ requestCtx = None
    /\ outcall = None

\* No provider has been constructed for calls one at a time.
ProvidersIdle ==
    /\ provider = ""
    /\ environ = None
    /\ fepConfig = None
    /\ last = None
    /\ loadedFrom = None

\* No file+environment provider with concurrent callers has been made.
HeapIdle ==
    /\ heap = <<>>
    /\ fpConfig = 0
    /\ thread = <<>>

\* No metrics collector has been made.
MetricsIdle ==
    /\ metrics = None
    /\ mu = None
    /\ worker = <<>>
    /\ completed = None

\* Nothing runs beside the request pipeline, the client and the provider.
OtherIdle == DeadlineIdle /\ ProvidersIdle /\ MetricsIdle /\ HeapIdle

\* The provider's lock is free and it has no caller.
LockIdle ==
    /\ mutex = [writer |-> FALSE, readers |-> 0]
    /\ goroutine = <<>>

Init ==
    /\ file \in Files
    /\ config = NoConfig
    /\ RequestsIdle(Reqs)
    /\ ClientIdle
    /\ OtherIdle
    /\ LockIdle

\* HandleRequest returns e and handleProxyRequest writes it with handleProxyError.
ReturnError(r, e) ==
    /\ result' = [result EXCEPT ![r] = Failure(e)]
    /\ written' = [written EXCEPT ![r] = HandleProxyError(e)]
    /\ pc' = [pc EXCEPT ![r] = "done"]

\* HandleRequest returns resp and handleProxyRequest writes it.
ReturnResponse(r, resp) ==
    /\ result' = [result EXCEPT ![r] = Success(resp)]
    /\ written' = [written EXCEPT ![r] = WriteJSONResponse(resp.Status, resp.Data)]
    /\ pc' = [pc EXCEPT ![r] = "done"]

\* The configuration file is written, removed or corrupted by the operator.
FileChange(f) ==
    /\ f \in Files
    /\ f # file
    /\ file' = f
    /\ UNCHANGED <<config, pc, endpointName, proxyReq, endpoint, fwd,
                   responseData, result, written, trace, forwardCalls>>
    /\ UNCHANGED <<received, outbound, clientVars, lockVars, otherVars>>

\* FileProvider.LoadConfig / FileProvider.Reload, called at start-up or by the operator.
LoadConfig ==
    /\ config' = StoredConfig(file, config)
    /\ UNCHANGED <<file, pc, endpointName, proxyReq, endpoint, fwd,
                   responseData, result, written, trace, forwardCalls>>
    /\ UNCHANGED <<received, outbound, clientVars, lockVars, otherVars>>

\* Handler.handleProxyRequest up to the call of HandleRequest: an OPTIONS
\* request is answered 200 with its body unread; the body of any other is
\* parsed and validated, and a malformed one is answered 400 without the
\* processor.  The requests of the model are those of the route
\* /proxy/{endpoint}: their path is empty and they have no query parameters.
Start(r, m, name, env) ==
    /\ pc[r] = "idle"
    /\ received' = [received EXCEPT ![r] = [Method |-> m, Body |-> env]]
    /\ IF m = "OPTIONS"
          THEN /\ written' = [written EXCEPT ![r] = WriteHeader(StatusOK)]
               /\ pc' = [pc EXCEPT ![r] = "done"]
               /\ UNCHANGED <<endpointName, proxyReq>>
          ELSE /\ endpointName' = [endpointName EXCEPT ![r] = name]
               /\ proxyReq' = [proxyReq EXCEPT ![r] = ParseProxyRequest(env).req]
               /\ IF ParseProxyRequest(env).err # "ok"
                     THEN /\ written' = [written EXCEPT ![r] =
                                 WriteErrorResponse(StatusBadRequest, "INVALID_REQUEST",
                                     <<"Invalid request format: ", ParseProxyRequest(env).err>>,
                                     None)]
                          /\ pc' = [pc EXCEPT ![r] = "done"]
                     ELSE /\ pc' = [pc EXCEPT ![r] = "resolve"]
                          /\ UNCHANGED written
    /\ UNCHANGED <<file, config, endpoint, fwd, responseData, result, trace, forwardCalls>>
    /\ UNCHANGED <<outbound, clientVars, lockVars, otherVars>>

\* handleProxyRequest returns: everything the request held is discarded.
Finish(r) ==
    /\ pc[r] = "done"
    /\ pc' = [pc EXCEPT ![r] = "idle"]
    /\ endpointName' = [endpointName EXCEPT ![r] = ""]
    /\ proxyReq' = [proxyReq EXCEPT ![r] = ProxyRequest("", "", "")]
    /\ endpoint' = [endpoint EXCEPT ![r] = None]
    /\ fwd' = [fwd EXCEPT ![r] = None]
    /\ responseData' = [responseData EXCEPT ![r] = None]
    /\ result' = [result EXCEPT ![r] = NoResult]
    /\ written' = [written EXCEPT ![r] = None]
    /\ trace' = [trace EXCEPT ![r] = <<>>]
    /\ forwardCalls' = [forwardCalls EXCEPT ![r] = 0]
    /\ received' = [received EXCEPT ![r] = None]
    /\ outbound' = [outbound EXCEPT ![r] = 0]
    /\ UNCHANGED <<file, config, clientVars, lockVars, otherVars>>

\* A resolution that goes straight to forwarding, leaving validation out.
ResolveSkipsValidation(r) ==
    /\ pc[r] = "resolve"
    /\ trace' = [trace EXCEPT ![r] = Append(@, "resolve")]
    /\ endpoint' = [endpoint EXCEPT ![r] = GetEndpoint(config, endpointName[r]).endpoint]
    /\ pc' = [pc EXCEPT ![r] =
                 IF GetEndpoint(config, endpointName[r]).exists THEN "forward" ELSE "list"]
    /\ UNCHANGED <<file, config, endpointName, proxyReq, fwd, responseData,
                   result, written, forwardCalls>>
    /\ UNCHANGED <<received, outbound, clientVars, lockVars, otherVars>>

\* HandleRequest, step 1: s.configProvider.GetEndpoint(endpointName).
Resolve(r) ==
    /\ pc[r] = "resolve"
    /\ trace' = [trace EXCEPT ![r] = Append(@, "resolve")]
    /\ endpoint' = [endpoint EXCEPT ![r] = GetEndpoint(config, endpointName[r]).endpoint]
    /\ pc' = [pc EXCEPT ![r] =
                 IF GetEndpoint(config, endpointName[r]).exists THEN "validate" ELSE "list"]
    /\ UNCHANGED <<file, config, endpointName, proxyReq, fwd, responseData,
                   result, written, forwardCalls>>
    /\ UNCHANGED <<received, outbound, clientVars, lockVars, otherVars>>

\* Service.getAvailableEndpoints: the names LoadConfig returns, none when it fails.
AvailableEndpoints(f) ==
    IF ReadConfig(f).err # "ok" THEN {} ELSE DOMAIN ReadConfig(f).Endpoints

\* HandleRequest, the not-found branch: getAvailableEndpoints calls LoadConfig,
\* which re-reads the file, and EndpointNotFoundError is returned.
ListEndpoints(r) ==
    /\ pc[r] = "list"
    /\ config' = StoredConfig(file, config)
    /\ ReturnError(r, EndpointNotFoundError(endpointName[r], AvailableEndpoints(file)))
    /\ UNCHANGED <<file, endpointName, proxyReq, endpoint, fwd, responseData,
                   trace, forwardCalls>>
    /\ UNCHANGED <<received, outbound, clientVars, lockVars, otherVars>>

\* The Details of the TransformationError of a failed validation.
ValidationDetails(req) ==
    [transformation_mode |-> req.TransformationMode, jq_query |-> req.JQQuery]

\* A validation of the request a field of the service holds, which is the one
\* of another invocation while that one is in flight.
ValidateSharedRequest(r) ==
    LET others == {q \in DOMAIN pc \ {r} : pc[q] \notin {"idle", "done"}}
        req == IF others = {} THEN proxyReq[r] ELSE proxyReq[CHOOSE q \in others : TRUE]
    IN  /\ pc[r] = "validate"
        /\ trace' = [trace EXCEPT ![r] = Append(@, "validate")]
        /\ IF ValidateTransformation(req) # <<>>
              THEN ReturnError(r, TransformationError(
                       <<"Invalid transformation: ">> \o ValidateTransformation(req),
                       ValidationDetails(req)))
              ELSE /\ pc' = [pc EXCEPT ![r] = "forward"]
                   /\ UNCHANGED <<result, written>>
        /\ UNCHANGED <<file, config, endpointName, proxyReq, endpoint, fwd,
                       responseData, forwardCalls>>
        /\ UNCHANGED <<received, outbound, clientVars, lockVars, otherVars>>

\* HandleRequest, step 2: s.validateTransformation(proxyReq).
Validate(r) ==
    /\ pc[r] = "validate"
    /\ trace' = [trace EXCEPT ![r] = Append(@, "validate")]
    /\ IF ValidateTransformation(proxyReq[r]) # <<>>
          THEN ReturnError(r, TransformationError(
                   <<"Invalid transformation: ">> \o ValidateTransformation(proxyReq[r]),
                   ValidationDetails(proxyReq[r])))
          ELSE /\ pc' = [pc EXCEPT ![r] = "forward"]
               /\ UNCHANGED <<result, written>>
    /\ UNCHANGED <<file, config, endpointName, proxyReq, endpoint, fwd,
                   responseData, forwardCalls>>
    /\ UNCHANGED <<received, outbound, clientVars, lockVars, otherVars>>

\* A connect error reported as 503 Service Unavailable.
ConnectErrorUnavailable(ep, err) ==
    [kind |-> "UpstreamError", Message |-> <<"Failed to connect to target endpoint">>,
     StatusCode |-> 503,
     Details |-> [endpoint |-> ep.Name, target |-> ep.Target, error |-> err]]

\* A connect error that reports an expired deadline as 504 Gateway Timeout.
ConnectErrorGatewayTimeout(ep, err) ==
    [kind |-> "UpstreamError",
     Message |-> IF err[2] = "context deadline exceeded"
                    THEN <<"Target endpoint timed out">>
                    ELSE <<"Failed to connect to target endpoint">>,
     StatusCode |-> IF err[2] = "context deadline exceeded" THEN 504 ELSE 502,
     Details |-> [endpoint |-> ep.Name, target |-> ep.Target, error |-> err]]

\* The UpstreamError forwardRequest makes of a failed ForwardRequest.
ConnectError(ep, err) ==
    UpstreamError(<<"Failed to connect to target endpoint">>, StatusBadGateway,
        [endpoint |-> ep.Name, target |-> ep.Target, error |-> err])

\* An http.Client.Do call made again after it failed.
DoCallsWithRetry(baseURL) ==
    IF BuildTargetURL(baseURL, <<>>, NoQuery).err # <<>> THEN 0 ELSE 2

\* The number of http.Client.Do calls one ForwardRequest call makes: none when
\* the target URL cannot be built, one otherwise.
DoCalls(baseURL) ==
    IF BuildTargetURL(baseURL, <<>>, NoQuery).err # <<>> THEN 0 ELSE 1

\* Client.ForwardRequest as HandleRequest sees it: the error of
\* buildTargetURL, or else the outcome o of the one call of Do.
ForwardRequest(baseURL, o) ==
    IF BuildTargetURL(baseURL, <<>>, NoQuery).err # <<>>
        THEN [response |-> None,
              err |-> <<"failed to build target URL: ">>
                          \o BuildTargetURL(baseURL, <<>>, NoQuery).err]
        ELSE o

\* HandleRequest, step 3: s.forwardRequest, one call of httpClient.ForwardRequest
\* whose outcome o the backend and the network decide.
Forward(r, o) ==
    /\ pc[r] = "forward"
    /\ o \in ForwardOutcomes
    /\ trace' = [trace EXCEPT ![r] = Append(@, "forward")]
    /\ forwardCalls' = [forwardCalls EXCEPT ![r] = @ + 1]
    /\ outbound' = [outbound EXCEPT ![r] = @ + DoCalls(endpoint[r].Target)]
    /\ fwd' = [fwd EXCEPT ![r] = ForwardRequest(endpoint[r].Target, o)]
    /\ IF ForwardRequest(endpoint[r].Target, o).err # <<>>
          THEN ReturnError(r, ConnectError(endpoint[r],
                                           ForwardRequest(endpoint[r].Target, o).err))
          ELSE /\ pc' = [pc EXCEPT ![r] = "decode"]
               /\ UNCHANGED <<result, written>>
    /\ UNCHANGED <<file, config, endpointName, proxyReq, endpoint, responseData>>
    /\ UNCHANGED <<received, clientVars, lockVars, otherVars>>

\* The UpstreamError of a JSON body that does not parse.
ParseError(name, resp, err) ==
    UpstreamError(<<"Failed to parse response from target endpoint">>, resp.StatusCode,
        [endpoint |-> name, error |-> err])

\* HandleRequest, step 4: the body is parsed as JSON when the response says
\* it is JSON, and kept as a string otherwise.
Decode(r) ==
    /\ pc[r] = "decode"
    /\ trace' = [trace EXCEPT ![r] = Append(@, "decode")]
    /\ IF IsJSONResponse(fwd[r].response)
          THEN IF ParseJSONBody(fwd[r].response).err # <<>>
                  THEN /\ ReturnError(r, ParseError(endpointName[r], fwd[r].response,
                                                    ParseJSONBody(fwd[r].response).err))
                       /\ UNCHANGED responseData
                  ELSE /\ responseData' = [responseData EXCEPT ![r] =
                                              ParseJSONBody(fwd[r].response).value]
                       /\ pc' = [pc EXCEPT ![r] = "transform"]
                       /\ UNCHANGED <<result, written>>
          ELSE /\ responseData' = [responseData EXCEPT ![r] = Str(fwd[r].response.Body)]
               /\ pc' = [pc EXCEPT ![r] = "transform"]
               /\ UNCHANGED <<result, written>>
    /\ UNCHANGED <<file, config, endpointName, proxyReq, endpoint, fwd, forwardCalls>>
    /\ UNCHANGED <<received, outbound, clientVars, lockVars, otherVars>>

\* Details of a failed transformation that leave the engine's error out.
TransformDetailsWithoutError(req, err) ==
    [transformation_mode |-> req.TransformationMode, jq_query |-> req.JQQuery]

\* The Details of the TransformationError of a failed transformation.
TransformDetails(req, err) ==
    [transformation_mode |-> req.TransformationMode, jq_query |-> req.JQQuery, error |-> err]

\* A response status that is always 200.
ResponseStatusAlwaysOK(resp) == StatusOK

\* The status HandleRequest puts in the ProxyResponse.
ResponseStatus(resp) == resp.StatusCode

\* HandleRequest, steps 5 and 6: unifiedTransformer.TransformRequest and the return.
Transform(r) ==
    /\ pc[r] = "transform"
    /\ trace' = [trace EXCEPT ![r] = Append(@, "transform")]
    /\ IF TransformRequest(responseData[r], proxyReq[r]).err # <<>>
          THEN ReturnError(r, TransformationError(
                   <<"Failed to transform response: ">> \o
                       TransformRequest(responseData[r], proxyReq[r]).err,
                   TransformDetails(proxyReq[r],
                       TransformRequest(responseData[r], proxyReq[r]).err)))
          ELSE ReturnResponse(r, ProxyResponse(
                   TransformRequest(responseData[r], proxyReq[r]).value,
                   ResponseStatus(fwd[r].response)))
    /\ UNCHANGED <<file, config, endpointName, proxyReq, endpoint, fwd,
                   responseData, forwardCalls>>
    /\ UNCHANGED <<received, outbound, clientVars, lockVars, otherVars>>

Next ==
    \/ \E f \in Files : FileChange(f)
    \/ LoadConfig
    \/ \E r \in Reqs, m \in InboundMethods, name \in EndpointNames, env \in Envelopes :
           Start(r, m, name, env)
    \/ \E r \in Reqs : Resolve(r)
    \/ \E r \in Reqs : ListEndpoints(r)
    \/ \E r \in Reqs : Validate(r)
    \/ \E r \in Reqs, o \in ForwardOutcomes : Forward(r, o)
    \/ \E r \in Reqs : Decode(r)
    \/ \E r \in Reqs : Transform(r)
    \/ \E r \in Reqs : Finish(r)

Spec == Init /\ [][Next]_vars

(***************************************************************************)
(* SpecHandler: the transport adapter in front of any implementation of    *)
(* models.ProxyService, which may return a response, one of the typed      *)
(* errors or any other error.                                              *)
(***************************************************************************)
\* An error that is no ProxyError (errors.New, fmt.Errorf).
ErrorString(text) == [kind |-> "errorString", Message |-> <<text>>]

\* What an implementation of ProxyService.HandleRequest can return.
ServiceOutcomes ==
    {Failure(ErrorString(t)) : t \in {"database connection failed", "runtime error: index out of range"}}
        \cup {Failure(EndpointNotFoundError("zzz", {"a"})),
              Failure(TransformationError(<<"Invalid transformation: ", "unexpected token">>,
                                          ValidationDetails(ProxyRequest("GET", "jq", ".invalid[")))),
              Failure(UpstreamError(<<"Failed to connect to target endpoint">>, StatusBadGateway,
                                    [endpoint |-> "a", error |-> <<"connection refused">>]))}
        \cup {Success(ProxyResponse(Null, sc)) : sc \in ResponseStatuses}

\* handleProxyRequest from the call of h.proxyService.HandleRequest on: the
\* service returns and the handler writes the response or the error.
ServiceReturns(r, o) ==
    /\ pc[r] = "resolve"
    /\ o \in ServiceOutcomes
    /\ result' = [result EXCEPT ![r] = o]
    /\ written' = [written EXCEPT ![r] =
                      IF o.err # None THEN HandleProxyError(o.err)
                                      ELSE WriteJSONResponse(o.resp.Status, o.resp.Data)]
    /\ pc' = [pc EXCEPT ![r] = "done"]
    /\ UNCHANGED <<file, config, endpointName, proxyReq, endpoint, fwd, responseData,
                   trace, forwardCalls, received, outbound, clientVars, lockVars, otherVars>>

InitHandler ==
    /\ file = FileMissing
    /\ config = NoConfig
    /\ RequestsIdle(Reqs)
    /\ ClientIdle
    /\ OtherIdle
    /\ LockIdle

NextHandler ==
    \/ \E r \in Reqs, m \in InboundMethods, name \in EndpointNames, env \in Envelopes :
           Start(r, m, name, env)
    \/ \E r \in Reqs, o \in ServiceOutcomes : ServiceReturns(r, o)
    \/ \E r \in Reqs : Finish(r)

SpecHandler == InitHandler /\ [][NextHandler]_vars

(***************************************************************************)
(* SpecConcurrent: two requests in flight at once (one goroutine each),    *)
(* their steps interleaved in every order, over a configuration file that  *)
(* holds endpoint a or is missing.                                         *)
(***************************************************************************)
ConcurrentReqs == {"r1", "r2"}

ConcurrentFiles == {FileMissing, FileJSON(EndpointsOne)}

ConcurrentNames == {"a", "zzz"}

ConcurrentEnvelopes ==
    {[json |-> TRUE, req |-> ProxyRequest("GET", "jq", q)] : q \in {".", ".invalid[", ".[]"}}

ConcurrentOutcomes ==
    {[response |-> None, err |-> <<"request failed: ", "connection refused">>],
     [response |-> Response(200, "application/json", "[1,2]"), err |-> <<>>],
     [response |-> Response(404, "text/plain", "{bad"), err |-> <<>>]}

InitConcurrent ==
    /\ file \in ConcurrentFiles
    /\ config = NoConfig
    /\ RequestsIdle(ConcurrentReqs)
    /\ ClientIdle
    /\ OtherIdle
    /\ LockIdle

NextConcurrent ==
    \/ \E f \in ConcurrentFiles : FileChange(f)
    \/ LoadConfig
    \/ \E r \in ConcurrentReqs, name \in ConcurrentNames, env \in ConcurrentEnvelopes :
           Start(r, "POST", name, env)
    \/ \E r \in ConcurrentReqs : Resolve(r)
    \/ \E r \in ConcurrentReqs : ListEndpoints(r)
    \/ \E r \in ConcurrentReqs : Validate(r)
    \/ \E r \in ConcurrentReqs, o \in ConcurrentOutcomes : Forward(r, o)
    \/ \E r \in ConcurrentReqs : Decode(r)
    \/ \E r \in ConcurrentReqs : Transform(r)
    \/ \E r \in ConcurrentReqs : Finish(r)

SpecConcurrent == InitConcurrent /\ [][NextConcurrent]_vars

(***************************************************************************)
(* SpecProvider: config.FileProvider under concurrent callers.  Each       *)
(* caller runs LoadConfig (Reload) or GetEndpoint one statement at a time; *)
(* fp.mutex is a sync.RWMutex: Lock waits for the readers and the writer   *)
(* to leave, RLock waits for the writer to leave.                          *)
(***************************************************************************)
Goroutines == {"g1", "g2", "g3"}

ProviderFiles == {FileMissing, FileJSON(EndpointsOne), FileJSON(EndpointsTwo)}

ProviderNames == {"a", "b"}

\* A caller that is in no call.  name: the argument of GetEndpoint; local:
\* LoadConfig's local config; answer: GetEndpoint's results; seen: the
\* value of fp.config when the caller took the read lock.
IdleCaller == [pc |-> "idle", name |-> "", local |-> None, answer |-> None, seen |-> None]

\* The callers inside LoadConfig's critical section, and inside GetEndpoint's.
Writing == {g \in DOMAIN goroutine : goroutine[g].pc \in {"read", "store", "unlock"}}
Reading == {g \in DOMAIN goroutine : goroutine[g].pc \in {"check", "lookup", "runlock"}}

\* A configuration object of which only some of the endpoints are there yet.
Partial(c) ==
    {[loaded |-> TRUE, Endpoints |-> [k \in S |-> c.Endpoints[k]]] :
        S \in SUBSET (DOMAIN c.Endpoints)}

\* What a read of fp.config can give.  A read made while a writer that has
\* stored has not yet released the lock is a data race with that store: it
\* can see the new object with any part of its contents.
Observable ==
    IF \E w \in Writing : goroutine[w].pc = "unlock" /\ goroutine[w].local # None
        THEN {config} \cup Partial(config)
        ELSE {config}

InitProvider ==
    /\ file \in ProviderFiles
    /\ config = NoConfig
    /\ RequestsIdle(Reqs)
    /\ ClientIdle
    /\ OtherIdle
    /\ mutex = [writer |-> FALSE, readers |-> 0]
    /\ goroutine = [g \in Goroutines |-> IdleCaller]

\* A caller enters FileProvider.LoadConfig (or Reload, which calls it).
CallLoadConfig(g) ==
    /\ goroutine[g].pc = "idle"
    /\ goroutine' = [goroutine EXCEPT ![g].pc = "lock"]
    /\ UNCHANGED <<file, config, mutex, requestVars, clientVars, otherVars>>

\* A caller enters FileProvider.GetEndpoint(name).
CallGetEndpoint(g, name) ==
    /\ goroutine[g].pc = "idle"
    /\ goroutine' = [goroutine EXCEPT ![g].pc = "rlock", ![g].name = name]
    /\ UNCHANGED <<file, config, mutex, requestVars, clientVars, otherVars>>

\* fp.mutex.Lock()
Lock(g) ==
    /\ goroutine[g].pc = "lock"
    /\ ~mutex.writer
    /\ mutex.readers = 0
    /\ mutex' = [mutex EXCEPT !.writer = TRUE]
    /\ goroutine' = [goroutine EXCEPT ![g].pc = "read"]
    /\ UNCHANGED <<file, config, requestVars, clientVars, otherVars>>

\* LoadConfig: os.Stat, os.ReadFile and models.ParseProxyConfig; an error
\* returns with fp.config untouched.
ReadFile(g) ==
    /\ goroutine[g].pc = "read"
    /\ IF ReadConfig(file).err # "ok"
          THEN goroutine' = [goroutine EXCEPT ![g].pc = "unlock"]
          ELSE goroutine' = [goroutine EXCEPT
                                ![g].pc = "store",
                                ![g].local = [loaded |-> TRUE,
                                              Endpoints |-> ReadConfig(file).Endpoints]]
    /\ UNCHANGED <<file, config, mutex, requestVars, clientVars, otherVars>>

\* LoadConfig: fp.config = config
Store(g) ==
    /\ goroutine[g].pc = "store"
    /\ config' = goroutine[g].local
    /\ goroutine' = [goroutine EXCEPT ![g].pc = "unlock"]
    /\ UNCHANGED <<file, mutex, requestVars, clientVars, otherVars>>

\* LoadConfig returns: the deferred fp.mutex.Unlock()
Unlock(g) ==
    /\ goroutine[g].pc = "unlock"
    /\ mutex' = [mutex EXCEPT !.writer = FALSE]
    /\ goroutine' = [goroutine EXCEPT ![g] = IdleCaller]
    /\ UNCHANGED <<file, config, requestVars, clientVars, otherVars>>

\* A read lock taken without waiting for the writer to leave.
RLockNoWait(g) ==
    /\ goroutine[g].pc = "rlock"
    /\ mutex' = [mutex EXCEPT !.readers = @ + 1]
    /\ goroutine' = [goroutine EXCEPT ![g].pc = "check", ![g].seen = config]
    /\ UNCHANGED <<file, config, requestVars, clientVars, otherVars>>

\* fp.mutex.RLock()
RLock(g) ==
    /\ goroutine[g].pc = "rlock"
    /\ ~mutex.writer
    /\ mutex' = [mutex EXCEPT !.readers = @ + 1]
    /\ goroutine' = [goroutine EXCEPT ![g].pc = "check", ![g].seen = config]
    /\ UNCHANGED <<file, config, requestVars, clientVars, otherVars>>

\* GetEndpoint: if fp.config == nil { return nil, false }
CheckNil(g) ==
    /\ goroutine[g].pc = "check"
    /\ \E c \in Observable :
           IF ~c.loaded
              THEN goroutine' = [goroutine EXCEPT
                                    ![g].pc = "runlock",
                                    ![g].answer = [exists |-> FALSE, endpoint |-> None]]
              ELSE goroutine' = [goroutine EXCEPT ![g].pc = "lookup"]
    /\ UNCHANGED <<file, config, mutex, requestVars, clientVars, otherVars>>

\* GetEndpoint: endpoint, exists := fp.config.Endpoints[name]
Lookup(g) ==
    /\ goroutine[g].pc = "lookup"
    /\ \E c \in Observable :
           goroutine' = [goroutine EXCEPT
                            ![g].pc = "runlock",
                            ![g].answer = GetEndpoint(c, goroutine[g].name)]
    /\ UNCHANGED <<file, config, mutex, requestVars, clientVars, otherVars>>

\* GetEndpoint returns: the deferred fp.mutex.RUnlock()
RUnlock(g) ==
    /\ goroutine[g].pc = "runlock"
    /\ mutex' = [mutex EXCEPT !.readers = @ - 1]
    /\ goroutine' = [goroutine EXCEPT ![g] = IdleCaller]
    /\ UNCHANGED <<file, config, requestVars, clientVars, otherVars>>

NextProvider ==
    \/ \E f \in ProviderFiles : FileChange(f)
    \/ \E g \in Goroutines : CallLoadConfig(g)
    \/ \E g \in Goroutines, name \in ProviderNames : CallGetEndpoint(g, name)
    \/ \E g \in Goroutines : Lock(g)
    \/ \E g \in Goroutines : ReadFile(g)
    \/ \E g \in Goroutines : Store(g)
    \/ \E g \in Goroutines : Unlock(g)
    \/ \E g \in Goroutines : RLock(g)
    \/ \E g \in Goroutines : CheckNil(g)
    \/ \E g \in Goroutines : Lookup(g)
    \/ \E g \in Goroutines : RUnlock(g)

SpecProvider == InitProvider /\ [][NextProvider]_vars

(***************************************************************************)
(* SpecClient: Client.ForwardRequest from the inside.  A call builds the   *)
(* target URL, filters the headers, builds the outbound request and sends  *)
(* it; wire is the list of the requests that left the process.             *)
(***************************************************************************)
\* The base URLs of the calls: absolute ones with and without a path, one
\* whose path ends in "//", one url.Parse rejects for its scheme, one with
\* no scheme (a relative reference), and one url.Parse rejects for its port.
BaseURLs ==
    {URL("https", <<"api.example.com">>),
     URL("https", <<"api.example.com", "/">>),
     URL("https", <<"api.example.com", "/", "v1">>),
     URL("https", <<"api.example.com", "/", "v1", "/", "/">>),
     <<"://", "invalid-url">>,
     <<"api.example.com">>,
     URL("http", <<"a.example.com", ":", "80a">>)}

\* The relative paths of the calls: "", "/users", "users" and "//users".
Paths == {<<>>, <<"/", "users">>, <<"users">>, <<"/", "/", "users">>}

\* The request bodies of the calls: nil or a value Do encodes as JSON.
CallBodies == {None, Str("payload")}

Call(method, baseURL, path, queryParams, headers, body) ==
    [method |-> method, baseURL |-> baseURL, path |-> path,
     queryParams |-> queryParams, headers |-> headers, body |-> body]

\* The calls of the model: every base URL with every path and query and no
\* headers, and every header set and body on one base URL and path.
Calls ==
    {Call("GET", b, p, q, None, None) :
        b \in BaseURLs, p \in Paths, q \in {NoQuery, Queries2}} \cup
    {Call("POST", URL("https", <<"api.example.com">>), <<"/", "users">>, NoQuery, h, body) :
        h \in HeaderSets, body \in CallBodies}

\* What the transport can answer to a request it sent.
ClientOutcomes ==
    {[response |-> None, err |-> <<"request failed: ", "connection refused">>],
     [response |-> Response(StatusOK, "application/json", "[7]"), err |-> <<>>]}

\* The http.Request Do builds.
Request(method, url, header, body) ==
    [Method |-> method, URL |-> url, Header |-> header, Body |-> body]

InitClient ==
    /\ file \in {FileJSON(EndpointsOne)}
    /\ config = NoConfig
    /\ RequestsIdle(Reqs)
    /\ ClientIdle
    /\ OtherIdle
    /\ LockIdle

\* A caller enters Client.ForwardRequest.
CallForwardRequest(c) ==
    /\ cpc = "idle"
    /\ call' = c
    /\ cpc' = "build"
    /\ UNCHANGED <<targetURL, filteredHeaders, request, wire, reply>>
    /\ UNCHANGED <<file, config, requestVars, lockVars, otherVars>>

\* ForwardRequest: buildTargetURL, and the return of its error.
BuildURL ==
    /\ cpc = "build"
    /\ targetURL' = BuildTargetURL(call.baseURL, call.path, call.queryParams)
    /\ IF targetURL'.err # <<>>
          THEN /\ reply' = [response |-> None,
                            err |-> <<"failed to build target URL: ">> \o targetURL'.err]
               /\ cpc' = "returned"
          ELSE /\ cpc' = "filter"
               /\ UNCHANGED reply
    /\ UNCHANGED <<call, filteredHeaders, request, wire>>
    /\ UNCHANGED <<file, config, requestVars, lockVars, otherVars>>

\* ForwardRequest: filteredHeaders := filterHeaders(headers)
Filter ==
    /\ cpc = "filter"
    /\ filteredHeaders' = FilterHeaders(call.headers)
    /\ cpc' = "do"
    /\ UNCHANGED <<call, targetURL, request, wire, reply>>
    /\ UNCHANGED <<file, config, requestVars, lockVars, otherVars>>

\* Do up to the call of httpClient.Do: the request is created, the headers
\* are copied in the order the map yields them, Content-Type is defaulted.
PrepareRequest(order) ==
    /\ cpc = "do"
    /\ order \in KeyOrders(filteredHeaders)
    /\ request' = Request(call.method, targetURL.url,
                          SetContentType(CopyHeaders(filteredHeaders, order, EmptyHeader),
                                         call.body),
                          call.body)
    /\ cpc' = "send"
    /\ UNCHANGED <<call, targetURL, filteredHeaders, wire, reply>>
    /\ UNCHANGED <<file, config, requestVars, lockVars, otherVars>>

\* c.httpClient.Do(req): the transport sends a request whose URL has the
\* scheme http or https and answers o; it refuses any other without sending.
Send(o) ==
    /\ cpc = "send"
    /\ o \in ClientOutcomes
    /\ IF UrlParse(request.URL).url.Scheme \in {"http", "https"}
          THEN /\ wire' = Append(wire, request)
               /\ reply' = o
          ELSE /\ reply' = [response |-> None,
                            err |-> <<"request failed: ", "unsupported protocol scheme">>]
               /\ UNCHANGED wire
    /\ cpc' = "returned"
    /\ UNCHANGED <<call, targetURL, filteredHeaders, request>>
    /\ UNCHANGED <<file, config, requestVars, lockVars, otherVars>>

\* The caller has its answer; the client is ready for the next call.
Return ==
    /\ cpc = "returned"
    /\ call' = None
    /\ cpc' = "idle"
    /\ targetURL' = None
    /\ filteredHeaders' = None
    /\ request' = None
    /\ wire' = <<>>
    /\ reply' = None
    /\ UNCHANGED <<file, config, requestVars, lockVars, otherVars>>

NextClient ==
    \/ \E c \in Calls : CallForwardRequest(c)
    \/ BuildURL
    \/ Filter
    \/ \E order \in KeyOrders(filteredHeaders) : PrepareRequest(order)
    \/ \E o \in ClientOutcomes : Send(o)
    \/ Return

SpecClient == InitClient /\ [][NextClient]_vars

(***************************************************************************)
(* The three configuration providers with the server settings: the file    *)
(* provider, the file provider wrapped with server settings from the       *)
(* environment (EnvProvider), and the provider that reads everything from  *)
(* the environment (FullEnvProvider).                                      *)
(***************************************************************************)
ServerConfig(port, readTimeout, writeTimeout) ==
    [Port |-> port, ReadTimeout |-> readTimeout, WriteTimeout |-> writeTimeout]

\* models.ServerConfig.Validate
ServerValidate(sc) ==
    IF sc.Port <= 0 \/ sc.Port > 65535 THEN "port must be between 1 and 65535"
    ELSE IF sc.ReadTimeout < 0 THEN "read timeout must be non-negative"
    ELSE IF sc.WriteTimeout < 0 THEN "write timeout must be non-negative"
    ELSE "ok"

\* A configuration file with a server section.
FileWithServer(server, e) == [kind |-> "json", endpoints |-> e, server |-> server]

\* What the file of a provider can hold: nothing, text that is not JSON,
\* and configurations with one or two endpoints, with none, and with a
\* port that does not validate.
FilesWithServer ==
    {FileMissing, FileBadJSON,
     FileWithServer(ServerConfig(8080, 30, 30), EndpointsOne),
     FileWithServer(ServerConfig(9090, 60, 30), EndpointsOne),
     FileWithServer(ServerConfig(9090, 60, 30), EndpointsTwo),
     FileWithServer(ServerConfig(8080, 30, 30), EmptyEndpoints),
     FileWithServer(ServerConfig(0, 30, 30), EndpointsTwo)}

\* A loaded models.ProxyConfig.
ProxyConfig(server, e) == [loaded |-> TRUE, Endpoints |-> e, Server |-> server]

\* os.Stat, os.ReadFile and models.ParseProxyConfig on file f: the error
\* ("ok" for nil) and the configuration parsed.
ParseProxyConfig(f) ==
    IF f.kind = "missing" THEN [err |-> "configuration file not found", config |-> NoConfig]
    ELSE IF f.kind = "badjson"
        THEN [err |-> "failed to parse configuration: invalid JSON", config |-> NoConfig]
    ELSE IF ConfigValidate(f.endpoints) # "ok" \/ ServerValidate(f.server) # "ok"
        THEN [err |-> "failed to parse configuration: validation failed", config |-> NoConfig]
    ELSE [err |-> "ok", config |-> ProxyConfig(f.server, f.endpoints)]

\* strconv.Atoi on the texts of the model.
Atoi(text) ==
    IF text = "0" THEN [n |-> 0, ok |-> TRUE]
    ELSE IF text = "60" THEN [n |-> 60, ok |-> TRUE]
    ELSE IF text = "9090" THEN [n |-> 9090, ok |-> TRUE]
    ELSE [n |-> 0, ok |-> FALSE]

\* loadServerConfigFromEnv: the error ("ok" for nil) and the server settings.
LoadServerConfigFromEnv(e) ==
    LET port == IF e.PROXY_PORT # "" THEN Atoi(e.PROXY_PORT).n ELSE 8080
        readTimeout == IF e.PROXY_READ_TIMEOUT # "" THEN Atoi(e.PROXY_READ_TIMEOUT).n ELSE 30
        writeTimeout == IF e.PROXY_WRITE_TIMEOUT # "" THEN Atoi(e.PROXY_WRITE_TIMEOUT).n ELSE 30
        server == ServerConfig(port, readTimeout, writeTimeout)
    IN  IF e.PROXY_PORT # "" /\ ~Atoi(e.PROXY_PORT).ok
            THEN [err |-> "invalid PROXY_PORT value", server |-> None]
        ELSE IF e.PROXY_READ_TIMEOUT # "" /\ ~Atoi(e.PROXY_READ_TIMEOUT).ok
            THEN [err |-> "invalid PROXY_READ_TIMEOUT value", server |-> None]
        ELSE IF e.PROXY_WRITE_TIMEOUT # "" /\ ~Atoi(e.PROXY_WRITE_TIMEOUT).ok
            THEN [err |-> "invalid PROXY_WRITE_TIMEOUT value", server |-> None]
        ELSE IF ServerValidate(server) # "ok" THEN [err |-> ServerValidate(server), server |-> None]
        ELSE [err |-> "ok", server |-> server]

\* The environment of the process: the server variables, PROXY_ENDPOINTS_JSON
\* and, in endpointVars, the variables PROXY_ENDPOINT_{key}_TARGET with the
\* PROXY_ENDPOINT_{key}_NAME that goes with each ("" when it is not set).
Environ(port, readTimeout, json, endpointVars) ==
    [PROXY_PORT |-> port, PROXY_READ_TIMEOUT |-> readTimeout, PROXY_WRITE_TIMEOUT |-> "",
     PROXY_ENDPOINTS_JSON |-> json, endpointVars |-> endpointVars]

EndpointVar(key, target, name) == [key |-> key, target |-> target, name |-> name]

\* PROXY_ENDPOINTS_JSON: not set, not JSON, or a map of endpoints.
JSONUnset == [kind |-> "unset", endpoints |-> EmptyEndpoints]
JSONBad == [kind |-> "badjson", endpoints |-> EmptyEndpoints]
JSONEndpoints ==
    [kind |-> "json",
     endpoints |-> [k \in {"api1"} |-> Endpoint("api1", URL("https", <<"api1.example.com">>))]]

\* The endpoint variables of the model: USERS with a name, MY_API without.
UsersVar == EndpointVar("USERS", URL("https", <<"users.example.com">>), "user-service")
MyApiVar == EndpointVar("MY_API", URL("https", <<"api.example.com">>), "")
BadTargetVar == EndpointVar("USERS", URL("ftp", <<"users.example.com">>), "user-service")

EndpointEnvs ==
    {<<JSONUnset, {}>>, <<JSONBad, {}>>, <<JSONEndpoints, {}>>,
     <<JSONUnset, {UsersVar}>>, <<JSONUnset, {MyApiVar}>>, <<JSONUnset, {UsersVar, MyApiVar}>>,
     <<JSONEndpoints, {UsersVar}>>, <<JSONUnset, {BadTargetVar}>>}

\* PROXY_PORT and PROXY_READ_TIMEOUT: not set, set, not a number, out of range.
ServerEnvs == {<<"", "">>, <<"9090", "60">>, <<"abc", "">>, <<"0", "">>}

\* strings.ReplaceAll(strings.ToLower(key), "_", "-") on the keys of the model.
DefaultName(key) ==
    IF key = "USERS" THEN "users"
    ELSE IF key = "MY_API" THEN "my-api"
    ELSE key

\* loadEndpointsFromEnv: the map key and the name of the endpoint of a variable.
MapKey(v) == IF v.name # "" THEN v.name ELSE v.key
NameOf(v) == IF v.name # "" THEN v.name ELSE DefaultName(v.key)

\* loadEndpointsFromEnv: the error ("ok" for nil) and the endpoints.
LoadEndpointsFromEnv(e) ==
    LET used == {v \in e.endpointVars : v.key # "" /\ v.target # <<>>}
        base == e.PROXY_ENDPOINTS_JSON.endpoints
        endpoints ==
            [k \in DOMAIN base \cup {MapKey(v) : v \in used} |->
                IF \E v \in used : MapKey(v) = k
                    THEN LET v == CHOOSE v \in used : MapKey(v) = k
                         IN  Endpoint(NameOf(v), v.target)
                    ELSE base[k]]
    IN  IF e.PROXY_ENDPOINTS_JSON.kind = "badjson"
            THEN [err |-> "invalid PROXY_ENDPOINTS_JSON", endpoints |-> EmptyEndpoints]
        ELSE IF \E v \in used : EndpointValidate(Endpoint(NameOf(v), v.target)) # "ok"
            THEN [err |-> "invalid endpoint", endpoints |-> EmptyEndpoints]
        ELSE IF DOMAIN endpoints = {}
            THEN [err |-> "no endpoints configured", endpoints |-> EmptyEndpoints]
        ELSE [err |-> "ok", endpoints |-> endpoints]

\* A load that keeps the configuration it already has.
FileLoadKeepsFirst(f, old) ==
    IF ParseProxyConfig(f).err # "ok"
        THEN [err |-> ParseProxyConfig(f).err, stored |-> old, returned |-> NoConfig]
        ELSE [err |-> "ok", stored |-> IF old.loaded THEN old ELSE ParseProxyConfig(f).config,
              returned |-> ParseProxyConfig(f).config]

\* FileProvider.LoadConfig on file f: the error, fp.config after the call
\* and the configuration returned.
FileLoad(f, old) ==
    IF ParseProxyConfig(f).err # "ok"
        THEN [err |-> ParseProxyConfig(f).err, stored |-> old, returned |-> NoConfig]
        ELSE [err |-> "ok", stored |-> ParseProxyConfig(f).config,
              returned |-> ParseProxyConfig(f).config]

\* EnvProvider.LoadConfig: the file provider loads and stores, then the
\* server settings of the environment are written into the configuration
\* object it returned, which is the one it stored.
EnvLoad(f, e, old) ==
    IF FileLoad(f, old).err # "ok" THEN FileLoad(f, old)
    ELSE IF LoadServerConfigFromEnv(e).err # "ok"
        THEN [err |-> "failed to load server config from environment",
              stored |-> FileLoad(f, old).stored, returned |-> NoConfig]
    ELSE [err |-> "ok",
          stored |-> [FileLoad(f, old).stored EXCEPT !.Server = LoadServerConfigFromEnv(e).server],
          returned |-> [FileLoad(f, old).stored EXCEPT
                           !.Server = LoadServerConfigFromEnv(e).server]]

\* FullEnvProvider.LoadConfig
FullEnvLoad(e, old) ==
    IF LoadServerConfigFromEnv(e).err # "ok"
        THEN [err |-> "failed to load server config from environment",
              stored |-> old, returned |-> NoConfig]
    ELSE IF LoadEndpointsFromEnv(e).err # "ok"
        THEN [err |-> "failed to load endpoints from environment",
              stored |-> old, returned |-> NoConfig]
    ELSE IF ConfigValidate(LoadEndpointsFromEnv(e).endpoints) # "ok"
        THEN [err |-> "configuration validation failed", stored |-> old, returned |-> NoConfig]
    ELSE [err |-> "ok",
          stored |-> ProxyConfig(LoadServerConfigFromEnv(e).server,
                                 LoadEndpointsFromEnv(e).endpoints),
          returned |-> ProxyConfig(LoadServerConfigFromEnv(e).server,
                                   LoadEndpointsFromEnv(e).endpoints)]

\* LoadConfig of the provider constructed.
ProviderLoad ==
    IF provider = "file" THEN FileLoad(file, config)
    ELSE IF provider = "env" THEN EnvLoad(file, environ, config)
    ELSE FullEnvLoad(environ, fepConfig)

\* The configuration the provider holds: fp.config, or fep.config.
Held == IF provider = "fullenv" THEN fepConfig ELSE config

(***************************************************************************)
(* SpecProviders: one of the three providers is constructed and called,    *)
(* one call at a time, while the file and the environment change.          *)
(***************************************************************************)
\* The names looked up in a provider: those of the files, or the keys and
\* names of the environment.
LookupNames(p) ==
    IF p = "fullenv" THEN {"api1", "USERS", "user-service", "MY_API", "my-api"}
    ELSE {"a", "b"}

\* The environments a provider can run in: the file+environment provider
\* reads the server variables only.
Environs(p) ==
    IF p = "file" THEN {Environ("", "", JSONUnset, {})}
    ELSE IF p = "env" THEN {Environ(s[1], s[2], JSONUnset, {}) : s \in ServerEnvs}
    ELSE {Environ(s[1], s[2], ev[1], ev[2]) : s \in ServerEnvs, ev \in EndpointEnvs}

\* The files a provider can run on.
ProviderFilesOf(p) == IF p = "fullenv" THEN {FileMissing} ELSE FilesWithServer

\* NewFileProvider, NewEnvProvider or NewFullEnvProvider: no configuration yet.
InitProviders ==
    /\ provider \in {"file", "env", "fullenv"}
    /\ file \in ProviderFilesOf(provider)
    /\ environ \in Environs(provider)
    /\ config = NoConfig
    /\ fepConfig = NoConfig
    /\ last = None
    /\ loadedFrom = None
    /\ RequestsIdle(Reqs)
    /\ ClientIdle
    /\ DeadlineIdle
    /\ MetricsIdle
    /\ HeapIdle
    /\ LockIdle

\* The provider stores configuration c.
Hold(c) ==
    IF provider = "fullenv"
        THEN fepConfig' = c /\ UNCHANGED config
        ELSE config' = c /\ UNCHANGED fepConfig

\* The operator rewrites the configuration file.
WriteFile(f) ==
    /\ f \in ProviderFilesOf(provider)
    /\ f # file
    /\ file' = f
    /\ UNCHANGED <<config, provider, environ, fepConfig, last, loadedFrom>>
    /\ UNCHANGED nonProviderVars

\* The environment of the process changes (os.Setenv).
Setenv(e) ==
    /\ e \in Environs(provider)
    /\ e # environ
    /\ environ' = e
    /\ UNCHANGED <<file, config, provider, fepConfig, last, loadedFrom>>
    /\ UNCHANGED nonProviderVars

\* LoadConfig, or Reload, which calls it and returns its error.
ProviderLoadConfig(c) ==
    /\ c \in {"LoadConfig", "Reload"}
    /\ Hold(ProviderLoad.stored)
    /\ last' = [call |-> c, name |-> "", err |-> ProviderLoad.err,
                answer |-> IF c = "LoadConfig" THEN ProviderLoad.returned ELSE None]
    /\ loadedFrom' = IF ProviderLoad.err = "ok"
                        THEN [file |-> file, environ |-> environ] ELSE loadedFrom
    /\ UNCHANGED <<file, provider, environ>>
    /\ UNCHANGED nonProviderVars

\* GetEndpoint(name); the file+environment provider asks its file provider.
ProviderGetEndpoint(name) ==
    /\ name \in LookupNames(provider)
    /\ last' = [call |-> "GetEndpoint", name |-> name, err |-> "ok",
                answer |-> GetEndpoint(Held, name)]
    /\ UNCHANGED <<file, config, provider, environ, fepConfig, loadedFrom>>
    /\ UNCHANGED nonProviderVars

\* GetConfig.  The file and the environment-only provider return what they
\* hold; the file+environment provider calls LoadConfig and returns its
\* result, or what the file provider holds when that fails.
ProviderGetConfig ==
    /\ IF provider = "env"
          THEN /\ Hold(ProviderLoad.stored)
               /\ last' = [call |-> "GetConfig", name |-> "", err |-> "ok",
                           answer |-> IF ProviderLoad.err = "ok"
                                         THEN ProviderLoad.returned
                                         ELSE ProviderLoad.stored]
               /\ loadedFrom' = IF ProviderLoad.err = "ok"
                                   THEN [file |-> file, environ |-> environ]
                                   ELSE loadedFrom
          ELSE /\ last' = [call |-> "GetConfig", name |-> "", err |-> "ok", answer |-> Held]
               /\ UNCHANGED <<config, fepConfig, loadedFrom>>
    /\ UNCHANGED <<file, provider, environ>>
    /\ UNCHANGED nonProviderVars

NextProviders ==
    \/ \E f \in FilesWithServer : WriteFile(f)
    \/ \E e \in Environs(provider) : Setenv(e)
    \/ \E c \in {"LoadConfig", "Reload"} : ProviderLoadConfig(c)
    \/ \E name \in LookupNames(provider) : ProviderGetEndpoint(name)
    \/ ProviderGetConfig

SpecProviders == InitProviders /\ [][NextProviders]_vars

(***************************************************************************)
(* SpecEnvProvider: the file+environment provider EnvProvider under        *)
(* concurrent callers.  ProxyConfig objects live at addresses of the heap; *)
(* fileProvider.config and the callers hold addresses.  Each caller runs   *)
(* LoadConfig (Reload) or GetConfig one statement at a time, and the       *)
(* operator rewrites the file meanwhile.                                   *)
(***************************************************************************)
Threads == {"t1", "t2"}

\* The most ProxyConfig objects allocated.
MaxObjects == 3

\* The files the operator writes.
EnvProviderFiles == {FileBadJSON, FileWithServer(ServerConfig(8080, 30, 30), EndpointsOne)}

ServerFields == {"Port", "ReadTimeout", "WriteTimeout"}

\* A caller that is in no call.  local: the address in the variable config
\* of LoadConfig; server: what loadServerConfigFromEnv returned; todo: the
\* fields of config.Server not yet written; got: the address of the
\* configuration the caller was given last, 0 for nil.
IdleThread == [pc |-> "idle", op |-> "", local |-> 0, server |-> None, todo |-> {}, got |-> 0]

\* The calls that may still allocate an object.
Loading == {t \in DOMAIN thread : thread[t].pc \in {"fplock", "fpload"}}

\* NewEnvProvider(filePath)
InitEnvProvider ==
    /\ heap = <<>>
    /\ fpConfig = 0
    /\ thread = [t \in Threads |-> IdleThread]
    /\ mutex = [writer |-> FALSE, readers |-> 0]
    /\ goroutine = <<>>
    /\ file \in EnvProviderFiles
    /\ environ \in Environs("env")
    /\ provider = "env"
    /\ fepConfig = None
    /\ last = None
    /\ loadedFrom = None
    /\ config = NoConfig
    /\ RequestsIdle(Reqs)
    /\ ClientIdle
    /\ DeadlineIdle
    /\ MetricsIdle

\* The operator rewrites the configuration file.
EnvWriteFile(f) ==
    /\ f \in EnvProviderFiles
    /\ f # file
    /\ file' = f
    /\ UNCHANGED <<environ, mutex, heap, fpConfig, thread>>
    /\ UNCHANGED nonHeapVars

\* A caller enters EnvProvider.LoadConfig (or Reload), or GetConfig, which
\* calls LoadConfig first; LoadConfig calls ep.fileProvider.LoadConfig.
EnvCall(t, op) ==
    /\ thread[t].pc = "idle"
    /\ op \in {"LoadConfig", "GetConfig"}
    /\ Len(heap) + Cardinality(Loading) < MaxObjects
    /\ thread' = [thread EXCEPT ![t].pc = "fplock", ![t].op = op]
    /\ UNCHANGED <<file, environ, mutex, heap, fpConfig>>
    /\ UNCHANGED nonHeapVars

\* FileProvider.LoadConfig: fp.mutex.Lock()
EnvFileLock(t) ==
    /\ thread[t].pc = "fplock"
    /\ ~mutex.writer
    /\ mutex.readers = 0
    /\ mutex' = [mutex EXCEPT !.writer = TRUE]
    /\ thread' = [thread EXCEPT ![t].pc = "fpload"]
    /\ UNCHANGED <<file, environ, heap, fpConfig>>
    /\ UNCHANGED nonHeapVars

\* FileProvider.LoadConfig under the lock: the file is read and parsed into a
\* new object, whose address is stored in fp.config and returned.
EnvFileLoad(t) ==
    /\ thread[t].pc = "fpload"
    /\ IF ParseProxyConfig(file).err # "ok"
          THEN /\ thread' = [thread EXCEPT ![t].pc = "fpunlock", ![t].local = 0]
               /\ UNCHANGED <<heap, fpConfig>>
          ELSE /\ heap' = Append(heap, ParseProxyConfig(file).config)
               /\ fpConfig' = Len(heap) + 1
               /\ thread' = [thread EXCEPT ![t].pc = "fpunlock", ![t].local = Len(heap) + 1]
    /\ UNCHANGED <<file, environ, mutex>>
    /\ UNCHANGED nonHeapVars

\* What a call does after LoadConfig has failed: LoadConfig returns nil,
\* GetConfig falls back to ep.fileProvider.GetConfig().
AfterFailure(t) ==
    IF thread[t].op = "GetConfig"
        THEN [thread EXCEPT ![t].pc = "fprlock", ![t].local = 0]
        ELSE [thread EXCEPT ![t] = [IdleThread EXCEPT !.got = 0]]

\* The deferred fp.mutex.Unlock(); back in EnvProvider.LoadConfig, err is looked at.
EnvFileUnlock(t) ==
    /\ thread[t].pc = "fpunlock"
    /\ mutex' = [mutex EXCEPT !.writer = FALSE]
    /\ thread' = IF thread[t].local = 0
                    THEN AfterFailure(t)
                    ELSE [thread EXCEPT ![t].pc = "env"]
    /\ UNCHANGED <<file, environ, heap, fpConfig>>
    /\ UNCHANGED nonHeapVars

\* serverConfig, err := ep.loadServerConfigFromEnv()
EnvLoadServer(t) ==
    /\ thread[t].pc = "env"
    /\ thread' = IF LoadServerConfigFromEnv(environ).err # "ok"
                    THEN AfterFailure(t)
                    ELSE [thread EXCEPT ![t].pc = "merge",
                                        ![t].server = LoadServerConfigFromEnv(environ).server,
                                        ![t].todo = ServerFields]
    /\ UNCHANGED <<file, environ, mutex, heap, fpConfig>>
    /\ UNCHANGED nonHeapVars

\* config.Server = *serverConfig, with no lock held: the three words of the
\* struct are written one after the other, in an order the build chooses.
EnvMergeServer(t, field) ==
    /\ thread[t].pc = "merge"
    /\ field \in thread[t].todo
    /\ heap' = [heap EXCEPT ![thread[t].local].Server[field] = thread[t].server[field]]
    /\ thread' = [thread EXCEPT ![t].todo = @ \ {field},
                                ![t].pc = IF thread[t].todo = {field} THEN "return" ELSE "merge"]
    /\ UNCHANGED <<file, environ, mutex, fpConfig>>
    /\ UNCHANGED nonHeapVars

\* return config, nil: the caller has the configuration.
EnvReturn(t) ==
    /\ thread[t].pc = "return"
    /\ thread' = [thread EXCEPT ![t] = [IdleThread EXCEPT !.got = thread[t].local]]
    /\ UNCHANGED <<file, environ, mutex, heap, fpConfig>>
    /\ UNCHANGED nonHeapVars

\* FileProvider.GetConfig: fp.mutex.RLock()
EnvFallbackRLock(t) ==
    /\ thread[t].pc = "fprlock"
    /\ ~mutex.writer
    /\ mutex' = [mutex EXCEPT !.readers = @ + 1]
    /\ thread' = [thread EXCEPT ![t].pc = "fpread"]
    /\ UNCHANGED <<file, environ, heap, fpConfig>>
    /\ UNCHANGED nonHeapVars

\* FileProvider.GetConfig: return fp.config, and the deferred RUnlock.
EnvFallbackRead(t) ==
    /\ thread[t].pc = "fpread"
    /\ mutex' = [mutex EXCEPT !.readers = @ - 1]
    /\ thread' = [thread EXCEPT ![t] = [IdleThread EXCEPT !.got = fpConfig]]
    /\ UNCHANGED <<file, environ, heap, fpConfig>>
    /\ UNCHANGED nonHeapVars

NextEnvProvider ==
    \/ \E f \in EnvProviderFiles : EnvWriteFile(f)
    \/ \E t \in Threads, op \in {"LoadConfig", "GetConfig"} : EnvCall(t, op)
    \/ \E t \in Threads : EnvFileLock(t)
    \/ \E t \in Threads : EnvFileLoad(t)
    \/ \E t \in Threads : EnvFileUnlock(t)
    \/ \E t \in Threads : EnvLoadServer(t)
    \/ \E t \in Threads, field \in ServerFields : EnvMergeServer(t, field)
    \/ \E t \in Threads : EnvReturn(t)
    \/ \E t \in Threads : EnvFallbackRLock(t)
    \/ \E t \in Threads : EnvFallbackRead(t)

SpecEnvProvider == InitEnvProvider /\ [][NextEnvProvider]_vars

(***************************************************************************)
(* SpecMetrics: the metrics collector logging.Metrics under concurrent     *)
(* callers.  RecordRequest and RecordError run under m.mu.Lock, GetMetrics *)
(* under m.mu.RLock; each caller keeps the last snapshot it was given.     *)
(***************************************************************************)
Workers == {"w1", "w2"}

MetricEndpoints == {"endpoint1", "endpoint2"}

\* The durations recorded, in milliseconds.
Durations == {100, 200}

\* The most RecordRequest and RecordError calls made.
MaxRecords == 3

EndpointMetrics(requestCount, errorCount, total, avg) ==
    [RequestCount |-> requestCount, ErrorCount |-> errorCount,
     TotalResponseTime |-> total, AvgResponseTime |-> avg]

\* m.endpointMetrics with an entry for the endpoint: &EndpointMetrics{} when new.
WithEntry(em, ep) ==
    [n \in DOMAIN em \cup {ep} |->
        IF n \in DOMAIN em THEN em[n] ELSE EndpointMetrics(0, 0, 0, 0)]

\* The body of RecordRequest.
RecordRequestBody(m, ep, duration) ==
    LET em == WithEntry(m.endpointMetrics, ep)[ep]
        total == em.TotalResponseTime + duration
    IN  [requestCount |-> m.requestCount + 1,
         errorCount |-> m.errorCount,
         totalResponseTime |-> m.totalResponseTime + duration,
         endpointMetrics |->
             [WithEntry(m.endpointMetrics, ep) EXCEPT
                 ![ep] = EndpointMetrics(em.RequestCount + 1, em.ErrorCount, total,
                                               total \div (em.RequestCount + 1))]]

\* The body of RecordError.
RecordErrorBody(m, ep) ==
    [m EXCEPT !.errorCount = @ + 1,
              !.endpointMetrics =
                  [WithEntry(m.endpointMetrics, ep) EXCEPT ![ep].ErrorCount = @ + 1]]

\* An entry of a snapshot that is the collector's own EndpointMetrics object.
EntryShared(name, em) == [shared |-> TRUE, name |-> name, value |-> EndpointMetrics(0, 0, 0, 0)]

\* endpoints[name] = *em: an entry of a snapshot, a copy of the object.
EntryCopy(name, em) == [shared |-> FALSE, name |-> name, value |-> em]

\* What reading an entry of a snapshot gives when the collector is m.
EntryValue(entry, m) ==
    IF entry.shared THEN m.endpointMetrics[entry.name] ELSE entry.value

\* What reading a snapshot gives when the collector is m.
SnapshotView(s, m) ==
    [TotalRequests |-> s.TotalRequests, TotalErrors |-> s.TotalErrors,
     AverageResponseTime |-> s.AverageResponseTime,
     Endpoints |-> [n \in DOMAIN s.Endpoints |-> EntryValue(s.Endpoints[n], m)]]

\* A caller that is in no call.  snap: the snapshot GetMetrics is building;
\* held: the last snapshot the caller was given.
IdleWorker == [pc |-> "idle", op |-> "", endpoint |-> "", duration |-> 0,
               snap |-> None, held |-> None]

\* The Record calls begun.
Recording == {g \in DOMAIN worker : worker[g].pc \in {"lock", "body", "unlock"}}

\* NewMetrics
InitMetrics ==
    /\ metrics = [requestCount |-> 0, errorCount |-> 0, totalResponseTime |-> 0,
                  endpointMetrics |-> [n \in {} |-> EndpointMetrics(0, 0, 0, 0)]]
    /\ mu = [writer |-> FALSE, readers |-> 0]
    /\ worker = [g \in Workers |-> IdleWorker]
    /\ completed = [requests |-> 0, errors |-> 0]
    /\ file \in {FileJSON(EndpointsOne)}
    /\ config = NoConfig
    /\ RequestsIdle(Reqs)
    /\ ClientIdle
    /\ DeadlineIdle
    /\ ProvidersIdle
    /\ HeapIdle
    /\ LockIdle

\* A caller enters RecordRequest or RecordError.
CallRecord(g, op, ep, duration) ==
    /\ worker[g].pc = "idle"
    /\ completed.requests + completed.errors + Cardinality(Recording) < MaxRecords
    /\ op \in {"RecordRequest", "RecordError"}
    /\ op = "RecordError" => duration = 0
    /\ op = "RecordRequest" => duration \in Durations
    /\ worker' = [worker EXCEPT ![g].pc = "lock", ![g].op = op,
                                ![g].endpoint = ep, ![g].duration = duration]
    /\ UNCHANGED <<metrics, mu, completed>>
    /\ UNCHANGED nonMetricsVars

\* A caller enters GetMetrics.
CallGetMetrics(g) ==
    /\ worker[g].pc = "idle"
    /\ worker' = [worker EXCEPT ![g].pc = "rlock", ![g].op = "GetMetrics"]
    /\ UNCHANGED <<metrics, mu, completed>>
    /\ UNCHANGED nonMetricsVars

\* A write lock taken without waiting for the readers to leave.
MetricsLockNoWait(g) ==
    /\ worker[g].pc = "lock"
    /\ ~mu.writer
    /\ mu' = [mu EXCEPT !.writer = TRUE]
    /\ worker' = [worker EXCEPT ![g].pc = "body"]
    /\ UNCHANGED <<metrics, completed>>
    /\ UNCHANGED nonMetricsVars

\* m.mu.Lock()
MetricsLock(g) ==
    /\ worker[g].pc = "lock"
    /\ ~mu.writer
    /\ mu.readers = 0
    /\ mu' = [mu EXCEPT !.writer = TRUE]
    /\ worker' = [worker EXCEPT ![g].pc = "body"]
    /\ UNCHANGED <<metrics, completed>>
    /\ UNCHANGED nonMetricsVars

\* The statements of RecordRequest or RecordError under the lock.
RecordBody(g) ==
    /\ worker[g].pc = "body"
    /\ metrics' = IF worker[g].op = "RecordRequest"
                     THEN RecordRequestBody(metrics, worker[g].endpoint, worker[g].duration)
                     ELSE RecordErrorBody(metrics, worker[g].endpoint)
    /\ worker' = [worker EXCEPT ![g].pc = "unlock"]
    /\ UNCHANGED <<mu, completed>>
    /\ UNCHANGED nonMetricsVars

\* The deferred m.mu.Unlock(); the call returns.
MetricsUnlock(g) ==
    /\ worker[g].pc = "unlock"
    /\ mu' = [mu EXCEPT !.writer = FALSE]
    /\ completed' = IF worker[g].op = "RecordRequest"
                       THEN [completed EXCEPT !.requests = @ + 1]
                       ELSE [completed EXCEPT !.errors = @ + 1]
    /\ worker' = [worker EXCEPT ![g] = [IdleWorker EXCEPT !.held = worker[g].held]]
    /\ UNCHANGED metrics
    /\ UNCHANGED nonMetricsVars

\* m.mu.RLock()
MetricsRLock(g) ==
    /\ worker[g].pc = "rlock"
    /\ ~mu.writer
    /\ mu' = [mu EXCEPT !.readers = @ + 1]
    /\ worker' = [worker EXCEPT ![g].pc = "average"]
    /\ UNCHANGED <<metrics, completed>>
    /\ UNCHANGED nonMetricsVars

\* GetMetrics: avgResponseTime
ComputeAverage(g) ==
    /\ worker[g].pc = "average"
    /\ worker' = [worker EXCEPT
                     ![g].pc = "copy",
                     ![g].snap = [TotalRequests |-> 0, TotalErrors |-> 0,
                                  AverageResponseTime |->
                                      IF metrics.requestCount > 0
                                          THEN metrics.totalResponseTime \div metrics.requestCount
                                          ELSE 0,
                                  Endpoints |-> [n \in {} |-> EntryCopy(n, EndpointMetrics(0, 0, 0, 0))],
                                  requestsAt |-> completed.requests,
                                  errorsAt |-> completed.errors]]
    /\ UNCHANGED <<metrics, mu, completed>>
    /\ UNCHANGED nonMetricsVars

\* GetMetrics: the loop that fills endpoints.
CopyEndpoints(g) ==
    /\ worker[g].pc = "copy"
    /\ worker' = [worker EXCEPT
                     ![g].pc = "totals",
                     ![g].snap.Endpoints =
                         [n \in DOMAIN metrics.endpointMetrics |->
                             EntryCopy(n, metrics.endpointMetrics[n])]]
    /\ UNCHANGED <<metrics, mu, completed>>
    /\ UNCHANGED nonMetricsVars

\* GetMetrics: the MetricsSnapshot literal reads the two counters.
ReadTotals(g) ==
    /\ worker[g].pc = "totals"
    /\ worker' = [worker EXCEPT
                     ![g].pc = "runlock",
                     ![g].snap.TotalRequests = metrics.requestCount,
                     ![g].snap.TotalErrors = metrics.errorCount]
    /\ UNCHANGED <<metrics, mu, completed>>
    /\ UNCHANGED nonMetricsVars

\* The deferred m.mu.RUnlock(); the caller has the snapshot.
MetricsRUnlock(g) ==
    /\ worker[g].pc = "runlock"
    /\ mu' = [mu EXCEPT !.readers = @ - 1]
    /\ worker' = [worker EXCEPT ![g] = [IdleWorker EXCEPT !.held = worker[g].snap]]
    /\ UNCHANGED <<metrics, completed>>
    /\ UNCHANGED nonMetricsVars

NextMetrics ==
    \/ \E g \in Workers, op \in {"RecordRequest", "RecordError"},
          ep \in MetricEndpoints, duration \in Durations \cup {0} :
              CallRecord(g, op, ep, duration)
    \/ \E g \in Workers : CallGetMetrics(g)
    \/ \E g \in Workers : MetricsLock(g)
    \/ \E g \in Workers : RecordBody(g)
    \/ \E g \in Workers : MetricsUnlock(g)
    \/ \E g \in Workers : MetricsRLock(g)
    \/ \E g \in Workers : ComputeAverage(g)
    \/ \E g \in Workers : CopyEndpoints(g)
    \/ \E g \in Workers : ReadTotals(g)
    \/ \E g \in Workers : MetricsRUnlock(g)

SpecMetrics == InitMetrics /\ [][NextMetrics]_vars

(***************************************************************************)
(* SpecDeadline: the time an outbound call may take.  forwardRequest       *)
(* derives a context with a timeout from the context of the inbound        *)
(* request, Do creates the request with it, and http.Client.Do returns as  *)
(* soon as that context is done or the client's own timeout has passed.    *)
(* Time is counted in seconds; it does not pass while a call whose context *)
(* is done is still to be ended.                                           *)
(***************************************************************************)
\* The last second of the model.
MaxNow == 35

\* context.WithTimeout(ctx, 30*time.Second)
RequestTimeout == 30

\* http.Client.Timeout, the server's read timeout: none (0), shorter and
\* longer than the timeout of the context.
ClientTimeouts == {0, 10, 60}

\* A context with a timeout that is not derived from the inbound one.
WithTimeoutDetached(parent, t, d) == [parent |-> "background", deadline |-> t + d]

\* context.WithTimeout(parent, d) called at time t.
WithTimeout(parent, t, d) == [parent |-> parent, deadline |-> t + d]

\* ctx.Done() is closed: the deadline has come or the parent is cancelled.
CtxDone(ctx) ==
    \/ now >= ctx.deadline
    \/ ctx.parent = "inbound" /\ inbound.done

\* The call under way has to end now.
MustEnd ==
    \/ CtxDone(requestCtx)
    \/ outcall.timeout > 0 /\ now >= outcall.startedAt + outcall.timeout

InFlight == outcall # None /\ outcall.state = "inflight"

InitDeadline ==
    /\ file \in {FileJSON(EndpointsOne)}
    /\ config = NoConfig
    /\ RequestsIdle(Reqs)
    /\ ClientIdle
    /\ OtherIdle
    /\ LockIdle

\* forwardRequest is entered for an inbound request and calls ForwardRequest
\* with the derived context.
StartForward(timeout) ==
    /\ outcall = None
    /\ timeout \in ClientTimeouts
    /\ inbound' = [done |-> FALSE, at |-> 0]
    /\ requestCtx' = WithTimeout("inbound", now, RequestTimeout)
    /\ outcall' = [state |-> "inflight", startedAt |-> now, endedAt |-> now,
                   timeout |-> timeout, err |-> ""]
    /\ UNCHANGED now
    /\ UNCHANGED nonDeadlineVars

\* The inbound caller disconnects: r.Context() is cancelled.
InboundCancel ==
    /\ inbound # None
    /\ ~inbound.done
    /\ inbound' = [done |-> TRUE, at |-> now]
    /\ UNCHANGED <<now, requestCtx, outcall>>
    /\ UNCHANGED nonDeadlineVars

\* A second passes.
Tick ==
    /\ now < MaxNow
    /\ ~(InFlight /\ MustEnd)
    /\ now' = now + 1
    /\ UNCHANGED <<inbound, requestCtx, outcall>>
    /\ UNCHANGED nonDeadlineVars

\* The backend answers and the body is read.
BackendAnswers ==
    /\ InFlight
    /\ ~MustEnd
    /\ outcall' = [outcall EXCEPT !.state = "answered", !.endedAt = now]
    /\ UNCHANGED <<now, inbound, requestCtx>>
    /\ UNCHANGED nonDeadlineVars

\* http.Client.Do gives the call up.
CallCancelled ==
    /\ InFlight
    /\ MustEnd
    /\ outcall' = [outcall EXCEPT
                      !.state = "failed",
                      !.endedAt = now,
                      !.err = IF requestCtx.parent = "inbound" /\ inbound.done
                                  THEN "context canceled"
                              ELSE IF now >= requestCtx.deadline
                                  THEN "context deadline exceeded"
                              ELSE "Client.Timeout exceeded"]
    /\ UNCHANGED <<now, inbound, requestCtx>>
    /\ UNCHANGED nonDeadlineVars

\* forwardRequest returns; the deferred cancel releases the context.
FinishForward ==
    /\ outcall # None
    /\ ~InFlight
    /\ inbound' = None
    /\ requestCtx' = None
    /\ outcall' = None
    /\ UNCHANGED now
    /\ UNCHANGED nonDeadlineVars

NextDeadline ==
    \/ \E timeout \in ClientTimeouts : StartForward(timeout)
    \/ InboundCancel
    \/ Tick
    \/ BackendAnswers
    \/ CallCancelled
    \/ FinishForward

SpecDeadline == InitDeadline /\ [][NextDeadline]_vars

(***************************************************************************)
(* Properties.                                                             *)
(***************************************************************************)
Steps == <<"resolve", "validate", "forward", "decode", "transform">>

IsPrefix(s, t) == Len(s) <= Len(t) /\ \A i \in 1..Len(s) : s[i] = t[i]

\* HandleRequest has returned for request r.
Returned(r) == pc[r] = "done" /\ result[r] # NoResult

\* HandleRequest has returned an error of the given kind for request r.
Failed(r, kind) == Returned(r) /\ result[r].err # None /\ result[r].err.kind = kind

\* HandleRequest has returned a response for request r.
Succeeded(r) == Returned(r) /\ result[r].resp # None

\* The request's endpoint was found by the resolver.
Resolved(r) == endpoint[r] # None

\* The forwarder returned a backend response to request r.
GotResponse(r) == fwd[r] # None /\ fwd[r].response # None

\* The forwarder returned an error to request r.
GotTransportError(r) == fwd[r] # None /\ fwd[r].err # <<>>

\* The query string does not parse.
SyntacticallyInvalid(q) == q # "" /\ Parse(q) # "ok"

\* C1: a request whose endpoint resolves and whose query does not parse never
\* reaches the forwarder, and ends as a TransformationError "Invalid
\* transformation" written as 422 TRANSFORMATION_ERROR, whatever the backend
\* would have answered.
C1_InvalidQueryNeverForwarded ==
    \A r \in Reqs :
        (Resolved(r) /\ SyntacticallyInvalid(proxyReq[r].JQQuery)) =>
            /\ forwardCalls[r] = 0
            /\ fwd[r] = None
            /\ pc[r] \in {"validate", "done"}
            /\ pc[r] = "done" =>
                /\ Failed(r, "TransformationError")
                /\ result[r].err.Message[1] = "Invalid transformation: "
                /\ written[r].statusCode = 422
                /\ written[r].body.error.code = "TRANSFORMATION_ERROR"

C1_Witness ==
    \E r \in Reqs :
        /\ Resolved(r)
        /\ SyntacticallyInvalid(proxyReq[r].JQQuery)
        /\ Failed(r, "TransformationError")
        /\ forwardCalls[r] = 0

\* C2: whenever the forwarder has been called, the query has parsed and
\* compiled.
C2_CompiledBeforeForward ==
    \A r \in Reqs :
        forwardCalls[r] > 0 =>
            /\ Parse(proxyReq[r].JQQuery) = "ok"
            /\ Compile(proxyReq[r].JQQuery) = "ok"

\* C3: the steps of one invocation run in the order resolve, validate,
\* forward, decode, transform, and the step that fails is the last one run.
C3_StrictOrderShortCircuit ==
    \A r \in Reqs :
        /\ IsPrefix(trace[r], Steps)
        /\ result[r].err # None => pc[r] = "done"
        /\ Failed(r, "EndpointNotFoundError") =>
               trace[r] = <<"resolve">> /\ forwardCalls[r] = 0
        /\ (Failed(r, "TransformationError")
                /\ result[r].err.Message[1] = "Invalid transformation: ") =>
               trace[r] = <<"resolve", "validate">> /\ forwardCalls[r] = 0
        /\ (Failed(r, "UpstreamError") /\ GotTransportError(r)) =>
               trace[r] = <<"resolve", "validate", "forward">> /\ responseData[r] = None
        /\ (Failed(r, "UpstreamError") /\ GotResponse(r)) =>
               trace[r] = <<"resolve", "validate", "forward", "decode">>
                   /\ responseData[r] = None
        /\ (Failed(r, "TransformationError")
                /\ result[r].err.Message[1] = "Failed to transform response: ") =>
               trace[r] = Steps
        /\ Succeeded(r) => trace[r] = Steps

C3_Witness ==
    \E r \in Reqs :
        /\ Failed(r, "UpstreamError")
        /\ GotTransportError(r)
        /\ trace[r] = <<"resolve", "validate", "forward">>

\* The decoding of the backend response of request r does not fail.
DecodeSucceeds(r) ==
    ~IsJSONResponse(fwd[r].response) \/ ParseJSONBody(fwd[r].response).err = <<>>

\* C4: once a backend response was returned and decoding and transformation
\* succeed, HandleRequest returns a response whose status is the backend's
\* status, whatever that status is, and the handler writes that status.
C4_StatusPropagated ==
    \A r \in Reqs :
        (pc[r] = "done" /\ GotResponse(r) /\ DecodeSucceeds(r)
              /\ Compile(proxyReq[r].JQQuery) = "ok"
              /\ Run(proxyReq[r].JQQuery, responseData[r]).err = "ok") =>
            /\ Succeeded(r)
            /\ result[r].resp.Status = fwd[r].response.StatusCode
            /\ written[r].statusCode = fwd[r].response.StatusCode

C4_Witness ==
    \E r \in Reqs :
        /\ Succeeded(r)
        /\ fwd[r].response.StatusCode = 500
        /\ result[r].resp.Status = 500

\* The names the resolver resolves.
ConfiguredNames(cfg) == IF cfg.loaded THEN DOMAIN cfg.Endpoints ELSE {}

\* C5: a request naming a configured endpoint resolves; any other name ends
\* as EndpointNotFound carrying the requested name and, as available
\* endpoints, the set of configured names.
C5_ResolutionAndAvailableEndpoints ==
    [][\A r \in Reqs :
          /\ (pc[r] = "resolve" /\ pc'[r] # "resolve") =>
                 IF endpointName[r] \in ConfiguredNames(config)
                    THEN pc'[r] = "validate" /\ endpoint'[r] = config.Endpoints[endpointName[r]]
                    ELSE pc'[r] = "list"
          /\ (pc[r] = "list" /\ pc'[r] = "done") =>
                 /\ result'[r].err.kind = "EndpointNotFoundError"
                 /\ result'[r].err.EndpointName = endpointName[r]
                 /\ result'[r].err.AvailableEndpoints = ConfiguredNames(config')]_vars

\* C6: every error HandleRequest returns is written with the status and code
\* of its kind: 404 ENDPOINT_NOT_FOUND, 422 TRANSFORMATION_ERROR, and
\* UPSTREAM_ERROR with the status the upstream error dictates.
C6_FixedStatusAndCode ==
    \A r \in Reqs :
        /\ Failed(r, "EndpointNotFoundError") =>
               /\ written[r].statusCode = 404
               /\ written[r].body.error.code = "ENDPOINT_NOT_FOUND"
        /\ Failed(r, "TransformationError") =>
               /\ written[r].statusCode = 422
               /\ written[r].body.error.code = "TRANSFORMATION_ERROR"
        /\ Failed(r, "UpstreamError") =>
               /\ written[r].body.error.code = "UPSTREAM_ERROR"
               /\ written[r].statusCode =
                      IF result[r].err.StatusCode >= 400 THEN result[r].err.StatusCode ELSE 502
        /\ (Returned(r) /\ result[r].err # None) =>
               result[r].err.kind \in
                   {"EndpointNotFoundError", "TransformationError", "UpstreamError"}

C6_Witness ==
    \E r \in Reqs :
        /\ Failed(r, "TransformationError")
        /\ trace[r] = Steps
        /\ written[r].statusCode = 422

\* C7: a connectivity failure of the forwarder ends the request as an
\* UpstreamError written with status 502, whose details hold the endpoint's
\* name, its target URL and the transport error text; nothing is decoded or
\* transformed.
C7_ConnectivityFailure ==
    \A r \in Reqs :
        GotTransportError(r) =>
            /\ Failed(r, "UpstreamError")
            /\ written[r].statusCode = 502
            /\ written[r].body.error.code = "UPSTREAM_ERROR"
            /\ written[r].body.error.details =
                   [endpoint |-> endpoint[r].Name, target |-> endpoint[r].Target,
                    error |-> fwd[r].err]
            /\ responseData[r] = None
            /\ trace[r] = <<"resolve", "validate", "forward">>

C7_Witness ==
    \E r \in Reqs :
        /\ GotTransportError(r)
        /\ Failed(r, "UpstreamError")
        /\ endpoint[r].Name = "svc-b"
        /\ written[r].statusCode = 502

\* The status an upstream failure is reported with for a backend status.
ReportedStatus(sc) == IF sc >= 400 THEN sc ELSE 502

\* What C8 promises for request r once decoding is over.
ParseFailureReported(r) ==
    pc[r] # "decode" =>
        /\ Failed(r, "UpstreamError")
        /\ written[r].body.error.code = "UPSTREAM_ERROR"
        /\ DOMAIN written[r].body.error.details = {"endpoint", "error"}
        /\ written[r].body.error.details.endpoint = endpointName[r]
        /\ written[r].statusCode = ReportedStatus(fwd[r].response.StatusCode)
        /\ responseData[r] = None
        /\ trace[r] = <<"resolve", "validate", "forward", "decode">>

\* C8 as stated: a response that declares JSON and whose body is not a JSON
\* text is reported as an UpstreamError with details {endpoint, error} and
\* status 502, or the backend's status when that is at least 400; the
\* transformation is not run.
C8_UnparseableBodyIsUpstreamError ==
    \A r \in Reqs :
        (GotResponse(r) /\ IsJSONResponse(fwd[r].response)
              /\ Unmarshal(fwd[r].response.Body).err # <<>>) =>
            ParseFailureReported(r)

\* C8 amended: the same for a body that is not empty; an empty body is
\* decoded as null and the request goes on to the transformation.
C8_NonEmptyUnparseableBodyIsUpstreamError ==
    \A r \in Reqs :
        (GotResponse(r) /\ IsJSONResponse(fwd[r].response)) =>
            /\ (fwd[r].response.Body # "" /\ Unmarshal(fwd[r].response.Body).err # <<>>) =>
                   ParseFailureReported(r)
            /\ (fwd[r].response.Body = "" /\ pc[r] # "decode") =>
                   /\ responseData[r] = Null
                   /\ ~Failed(r, "UpstreamError")

C8_Witness ==
    \E r \in Reqs :
        /\ GotResponse(r)
        /\ IsJSONResponse(fwd[r].response)
        /\ fwd[r].response.Body = "{bad"
        /\ fwd[r].response.StatusCode = 200
        /\ Failed(r, "UpstreamError")
        /\ written[r].statusCode = 502

\* C9: an expired deadline ends the request exactly as a refused connection
\* does: an UpstreamError "Failed to connect to target endpoint" written as
\* 502 UPSTREAM_ERROR.
C9_TimeoutIsUpstreamFailure ==
    \A r \in Reqs :
        (fwd[r] # None /\ fwd[r].err = <<"request failed: ", "context deadline exceeded">>) =>
            /\ Failed(r, "UpstreamError")
            /\ result[r].err.StatusCode = 502
            /\ result[r].err.Message = <<"Failed to connect to target endpoint">>
            /\ written[r].statusCode = 502
            /\ written[r].body.error.code = "UPSTREAM_ERROR"
            /\ written[r].body.error.message = <<"Failed to connect to target endpoint">>

C9_Witness ==
    \E r \in Reqs :
        /\ fwd[r] # None
        /\ fwd[r].err = <<"request failed: ", "context deadline exceeded">>
        /\ Failed(r, "UpstreamError")
        /\ written[r].statusCode = 502

\* The values the engine yields for request r's query on its decoded response.
EngineResults(r) == Run(proxyReq[r].JQQuery, responseData[r]).results

\* C10: the value a successful request returns is null when the engine
\* yielded nothing, the value itself when it yielded one, and the array of
\* the values in order when it yielded two or more.
C10_CollapsingRule ==
    \A r \in Reqs :
        /\ (pc[r] = "done" /\ trace[r] = Steps
                /\ Compile(proxyReq[r].JQQuery) = "ok"
                /\ Run(proxyReq[r].JQQuery, responseData[r]).err = "ok") => Succeeded(r)
        /\ Succeeded(r) =>
            /\ Len(EngineResults(r)) = 0 => result[r].resp.Data = Null
            /\ Len(EngineResults(r)) = 1 => result[r].resp.Data = EngineResults(r)[1]
            /\ Len(EngineResults(r)) >= 2 =>
                   /\ result[r].resp.Data.t = "arr"
                   /\ Len(result[r].resp.Data.a) = Len(EngineResults(r))
                   /\ \A i \in 1..Len(EngineResults(r)) :
                          result[r].resp.Data.a[i] = EngineResults(r)[i]
            /\ written[r].body = result[r].resp.Data

C10_Witness ==
    \E r \in Reqs :
        /\ Succeeded(r)
        /\ Len(EngineResults(r)) >= 2
        /\ result[r].resp.Data = Arr(<<Num(1), Num(2)>>)

\* The request processor has been invoked for request r.
Invoked(r) ==
    pc[r] \in {"resolve", "list", "validate", "forward", "decode", "transform"}
        \/ result[r] # NoResult

\* The body is one of the malformed envelopes: not JSON, no method, a method
\* token that is not an HTTP method, or an empty query.
Malformed(env) ==
    \/ ~env.json
    \/ env.req.Method = ""
    \/ env.req.Method \notin {"GET", "get", "POST", "post", "PUT", "DELETE", "PATCH",
                              "HEAD", "OPTIONS"}
    \/ env.req.JQQuery = ""

\* C11: a POST whose body is a malformed envelope is answered 400
\* INVALID_REQUEST with no details and the request processor is not invoked
\* for it; whenever the request processor is invoked, the envelope it was
\* given is the one received and passes validation.
C11_MalformedEnvelopeRejected ==
    \A r \in Reqs :
        /\ (received[r] # None /\ received[r].Method = "POST"
                /\ Malformed(received[r].Body)) =>
               /\ pc[r] = "done"
               /\ ~Invoked(r)
               /\ trace[r] = <<>>
               /\ forwardCalls[r] = 0
               /\ written[r].statusCode = 400
               /\ written[r].body.error.code = "INVALID_REQUEST"
               /\ written[r].body.error.details = None
        /\ Invoked(r) =>
               /\ received[r].Method = "POST"
               /\ ~Malformed(received[r].Body)
               /\ proxyReq[r].Method = received[r].Body.req.Method
               /\ proxyReq[r].JQQuery = received[r].Body.req.JQQuery
               /\ proxyReq[r].TransformationMode = "jq"

C11_Witness ==
    \E r \in Reqs :
        /\ received[r] # None
        /\ received[r].Method = "POST"
        /\ received[r].Body.json
        /\ received[r].Body.req.Method = "GET"
        /\ received[r].Body.req.JQQuery = ""
        /\ written[r].statusCode = 400
        /\ written[r].body.error.code = "INVALID_REQUEST"
        /\ ~Invoked(r)

\* The error HandleRequest returned for request r is none of the typed kinds.
FailedUntyped(r) ==
    pc[r] = "done" /\ result[r].err # None /\ result[r].err.kind = "errorString"

\* C12: an error of the request processor that is none of the typed kinds is
\* written as 500 INTERNAL_ERROR with the fixed message and no details; the
\* error's own text is nowhere in the response.  A typed error is written
\* with its own status, code and text.
C12_UntypedErrorIsInternalError ==
    \A r \in Reqs :
        /\ FailedUntyped(r) =>
               /\ written[r].statusCode = 500
               /\ written[r].body.error.code = "INTERNAL_ERROR"
               /\ written[r].body.error.details = None
               /\ written[r].body.error.message = <<"An unexpected error occurred">>
               /\ \A i \in 1..Len(written[r].body.error.message) :
                      \A j \in 1..Len(result[r].err.Message) :
                          written[r].body.error.message[i] # result[r].err.Message[j]
        /\ (pc[r] = "done" /\ result[r].err # None /\ ~FailedUntyped(r)) =>
               written[r].body.error.code # "INTERNAL_ERROR"

C12_Witness ==
    \E r \in Reqs :
        /\ FailedUntyped(r)
        /\ result[r].err.Message = <<"database connection failed">>
        /\ written[r].statusCode = 500
        /\ written[r].body.error.code = "INTERNAL_ERROR"

\* What HandleRequest returns when it runs alone for the endpoint name and
\* envelope req, with a resolver that answers ep (None for not found) and
\* lists avail, and a forwarder that returns got (None: it was not called,
\* and nothing is returned past the validation).
Alone(name, req, ep, avail, got) ==
    IF ep = None THEN Failure(EndpointNotFoundError(name, avail))
    ELSE IF ValidateTransformation(req) # <<>>
        THEN Failure(TransformationError(
                 <<"Invalid transformation: ">> \o ValidateTransformation(req),
                 [transformation_mode |-> req.TransformationMode, jq_query |-> req.JQQuery]))
    ELSE IF got = None THEN NoResult
    ELSE IF got.err # <<>>
        THEN Failure(UpstreamError(<<"Failed to connect to target endpoint">>, 502,
                 [endpoint |-> ep.Name, target |-> ep.Target, error |-> got.err]))
    ELSE IF IsJSONResponse(got.response) /\ ParseJSONBody(got.response).err # <<>>
        THEN Failure(UpstreamError(<<"Failed to parse response from target endpoint">>,
                 got.response.StatusCode,
                 [endpoint |-> name, error |-> ParseJSONBody(got.response).err]))
    ELSE LET data == IF IsJSONResponse(got.response)
                        THEN ParseJSONBody(got.response).value
                        ELSE Str(got.response.Body)
             out == TransformRequest(data, req)
         IN  IF out.err # <<>>
                 THEN Failure(TransformationError(
                          <<"Failed to transform response: ">> \o out.err,
                          [transformation_mode |-> req.TransformationMode,
                           jq_query |-> req.JQQuery, error |-> out.err]))
                 ELSE Success(ProxyResponse(out.value, got.response.StatusCode))

\* The available endpoints request r was told of, if it was told any.
AvailableSeen(r) ==
    IF result[r].err # None /\ result[r].err.kind = "EndpointNotFoundError"
        THEN result[r].err.AvailableEndpoints ELSE {}

\* Everything the model holds for request r.
Slot(r) ==
    <<pc[r], endpointName[r], proxyReq[r], endpoint[r], fwd[r], responseData[r],
      result[r], written[r], trace[r], forwardCalls[r], received[r], outbound[r]>>

\* Slot(r) in the next state.
SlotNext(r) ==
    <<pc'[r], endpointName'[r], proxyReq'[r], endpoint'[r], fwd'[r], responseData'[r],
      result'[r], written'[r], trace'[r], forwardCalls'[r], received'[r], outbound'[r]>>

CompleteConfigs ==
    {NoConfig} \cup {[loaded |-> TRUE, Endpoints |-> f.endpoints] :
                        f \in {FileJSON(EndpointsOne), FileJSON(EndpointsTwo)}}

\* C14: while a caller is between RLock and RUnlock of GetEndpoint no caller
\* is between Lock and Unlock of LoadConfig, and the reverse, and at most
\* one caller is between Lock and Unlock; the provider's configuration does
\* not change while a read lock is held, and the answer of GetEndpoint is
\* the lookup of its name in one whole configuration, the one in place when
\* it took the read lock.
C14_LookupsSeeWholeConfiguration ==
    /\ config \in CompleteConfigs
    /\ Cardinality(Writing) <= 1
    /\ Writing = {} \/ Reading = {}
    /\ mutex.writer <=> Writing # {}
    /\ mutex.readers = Cardinality(Reading)
    /\ \A g \in Reading :
           /\ goroutine[g].seen = config
           /\ goroutine[g].pc = "runlock" =>
                  goroutine[g].answer = GetEndpoint(goroutine[g].seen, goroutine[g].name)

C14_Witness ==
    /\ goroutine # <<>>
    /\ goroutine["g1"].pc = "runlock"
    /\ goroutine["g1"].name = "b"
    /\ goroutine["g1"].answer.exists
    /\ goroutine["g2"].pc = "lock"
    /\ goroutine["g3"].pc = "lookup"
    /\ file = FileMissing

\* The step has been run for request r.
InTrace(r, step) == \E i \in 1..Len(trace[r]) : trace[r][i] = step

\* Resolution and validation have succeeded for request r.
ResolvedAndValidated(r) ==
    /\ Resolved(r)
    /\ InTrace(r, "validate")
    /\ ~(Failed(r, "TransformationError") /\ trace[r] = <<"resolve", "validate">>)

JpxName(name) ==
    /\ Len(name) >= 4
    /\ name[1] \in {"j", "J"}
    /\ name[2] \in {"p", "P"}
    /\ name[3] \in {"x", "X"}
    /\ name[4] = "-"

\* filterHeaders has run in the call under way.
Filtered == cpc \in {"do", "send"} \/ (cpc = "returned" /\ request # None)

\* C16: the three laws of header filtering.  Once filterHeaders has run on
\* a header set, its output has no key that begins with jpx- in any letter
\* case, has every other key of the input with exactly the input's values
\* and no key the input lacks, and filtering the output again gives an
\* equal set.
C16_FilterHeadersLaws ==
    Filtered =>
        /\ FilterHeaders(filteredHeaders) = filteredHeaders
        /\ call.headers # None =>
              /\ filteredHeaders # None
              /\ \A n \in DOMAIN filteredHeaders.m : ~JpxName(n)
              /\ DOMAIN filteredHeaders.m \subseteq DOMAIN call.headers.m
              /\ \A n \in DOMAIN call.headers.m :
                    ~JpxName(n) =>
                        /\ n \in DOMAIN filteredHeaders.m
                        /\ filteredHeaders.m[n] = call.headers.m[n]

\* A set with JPX-D and a two-valued x-a has been filtered down to x-a.
C16_Witness ==
    /\ Filtered
    /\ call.headers # None
    /\ DOMAIN call.headers.m = {<<"J", "P", "X", "-", "D">>, <<"x", "-", "a">>}
    /\ call.headers.m[<<"x", "-", "a">>] = <<"1", "2">>
    /\ DOMAIN filteredHeaders.m = {<<"x", "-", "a">>}

\* The inbound names of the call that filtering lets through.
ForwardedNames ==
    IF call.headers = None THEN {}
    ELSE {n \in DOMAIN call.headers.m : ~JpxName(n)}

\* C17: every inbound header whose name does not match jpx-* reaches the
\* outbound request unchanged.  Each request on the wire carries every such
\* header under its original name, in its original casing, with its values
\* in their order, and carries no other header than these and the
\* Content-Type that Do sets for a body.
C17_HeadersForwardedUnchanged ==
    \A i \in 1..Len(wire) :
        /\ \A n \in ForwardedNames :
              /\ n \in DOMAIN wire[i].Header
              /\ wire[i].Header[n] = call.headers.m[n]
        /\ DOMAIN wire[i].Header \subseteq ForwardedNames \cup {ContentTypeName}

\* buildTargetURL has returned a URL in the call under way.
Built == cpc # "idle" /\ targetURL # None /\ targetURL.err = <<>>

\* The text up to the first "?".
BeforeQuery(text) ==
    IF \E i \in 1..Len(text) : text[i] = "?"
        THEN SubSeq(text, 1, (CHOOSE i \in 1..Len(text) :
                                  text[i] = "?" /\ \A j \in 1..(i - 1) : text[j] # "?") - 1)
        ELSE text

\* The path of the base URL of the call and the path of the URL built.
BasePath == UrlParse(call.baseURL).url.Path
TargetPath == UrlParse(BeforeQuery(targetURL.url)).url.Path

WithoutTrailingSlash(p) == IF HasSuffixSlash(p) THEN SubSeq(p, 1, Len(p) - 1) ELSE p
WithoutLeadingSlash(p) == IF HasPrefixSlash(p) THEN Tail(p) ELSE p

\* The base path, one "/", the relative path: what the three rules of the
\* join amount to.
JoinedByRules(basePath, path) ==
    WithoutTrailingSlash(basePath) \o <<"/">> \o WithoutLeadingSlash(path)

\* The "/" of the join has no "/" next to it.
SingleSlashAtJoin(basePath, path) ==
    /\ ~HasSuffixSlash(WithoutTrailingSlash(basePath))
    /\ ~HasPrefixSlash(WithoutLeadingSlash(path))

\* C18 as stated: for every base URL and relative path the path of the URL
\* built is the base path followed by the relative path with exactly one
\* "/" at the join, by the three rules, and the join never contains "//".
C18_ExactlyOneSlashAtJoin ==
    Built =>
        /\ TargetPath = JoinedByRules(BasePath, call.path)
        /\ SingleSlashAtJoin(BasePath, call.path)

\* C18, amended: an empty relative path leaves the base path as it is; a
\* non-empty one is joined to the base path by the three rules, and the
\* join has exactly one "/" when the relative path starts with at most one
\* "/" and the base path ends with at most one.
C18_JoinByRulesForNonEmptyPath ==
    Built =>
        IF call.path = <<>> THEN TargetPath = BasePath
        ELSE /\ TargetPath = JoinedByRules(BasePath, call.path)
             /\ (Len(call.path) < 2 \/ SubSeq(call.path, 1, 2) # <<"/", "/">>)
                    /\ (Len(BasePath) < 2
                           \/ SubSeq(BasePath, Len(BasePath) - 1, Len(BasePath)) # <<"/", "/">>)
                 => SingleSlashAtJoin(BasePath, call.path)

\* The base path /v1 and the relative path users have been joined with an
\* inserted "/".
C18_Witness ==
    /\ Built
    /\ BasePath = <<"/", "v1">>
    /\ call.path = <<"users">>
    /\ TargetPath = <<"/", "v1", "/", "users">>

\* The base URL of the call does not parse, or parses without a scheme.
BaseNotAbsolute ==
    \/ UrlParse(call.baseURL).err # "ok"
    \/ UrlParse(call.baseURL).url.Scheme = ""

\* C19: whenever the base URL does not parse as an absolute URL, the
\* construction of the target URL fails with the invalid-target-URL error
\* and returns no URL, the call returns that error, and no outbound request
\* is built or sent.
C19_NotAbsoluteBaseFails ==
    (call # None /\ BaseNotAbsolute /\ targetURL # None) =>
        /\ targetURL.err # <<>>
        /\ targetURL.err[1] = "invalid base URL: "
        /\ targetURL.url = <<>>
        /\ request = None
        /\ wire = <<>>
        /\ cpc = "returned"
        /\ reply.response = None
        /\ reply.err[1] = "failed to build target URL: "

\* The content type declares JSON: it contains application/json in some
\* letter case.
DeclaresJSON(ct) == ct \in {"application/json", "Application/JSON; charset=utf-8"}

\* The backend response of request r has been decoded.
Decoded(r) == pc[r] = "transform" \/ (pc[r] = "done" /\ trace[r] = Steps)

\* C20: the value handed to the transformation depends on the declared
\* content type of the backend response.  When it declares JSON the value is
\* the parsed body; otherwise it is the body as a string value, also when
\* the body text is valid JSON, and an identity query then returns that
\* string.
C20_DecodedByDeclaredContentType ==
    \A r \in Reqs :
        Decoded(r) =>
            IF DeclaresJSON(fwd[r].response.ContentType)
                THEN responseData[r] =
                         (IF fwd[r].response.Body = "" THEN Null
                          ELSE Unmarshal(fwd[r].response.Body).value)
                ELSE /\ responseData[r] = Str(fwd[r].response.Body)
                     /\ (Succeeded(r) /\ proxyReq[r].TransformationMode \in {"", "jq"}
                            /\ proxyReq[r].JQQuery = ".") =>
                           result[r].resp.Data = Str(fwd[r].response.Body)

\* A text/plain response whose body is the JSON text [1,2] has been decoded
\* to a string, and an identity query has returned that string.
C20_Witness ==
    \E r \in Reqs :
        /\ Succeeded(r)
        /\ fwd[r].response.ContentType = "text/plain"
        /\ fwd[r].response.Body = "[1,2]"
        /\ responseData[r] = Str("[1,2]")
        /\ proxyReq[r].JQQuery = "."
        /\ result[r].resp.Data = Str("[1,2]")

\* Request r ended in a TransformationError before, or after, the forward.
InvalidTransformation(r) == Failed(r, "TransformationError") /\ ~InTrace(r, "forward")
TransformationFailure(r) == Failed(r, "TransformationError") /\ InTrace(r, "forward")

\* C21 as stated: the details of a transformation error name the offending
\* query under the key query; before the forward they carry query, after
\* it exactly query and error, the engine's error text.
C21_DetailsUnderKeyQuery ==
    \A r \in Reqs :
        /\ InvalidTransformation(r) =>
              /\ "query" \in DOMAIN result[r].err.Details
              /\ result[r].err.Details.query = proxyReq[r].JQQuery
        /\ TransformationFailure(r) =>
              /\ DOMAIN result[r].err.Details = {"query", "error"}
              /\ result[r].err.Details.query = proxyReq[r].JQQuery

\* C21, amended: the details name the offending query under the key
\* jq_query, next to transformation_mode; before the forward they carry
\* exactly these two, after it exactly these two and error, the text of the
\* engine's error, which is also the tail of the message.
C21_DetailsUnderKeyJqQuery ==
    \A r \in Reqs :
        /\ InvalidTransformation(r) =>
              /\ DOMAIN result[r].err.Details = {"transformation_mode", "jq_query"}
              /\ result[r].err.Details.jq_query = proxyReq[r].JQQuery
              /\ result[r].err.Details.transformation_mode = proxyReq[r].TransformationMode
        /\ TransformationFailure(r) =>
              /\ DOMAIN result[r].err.Details = {"transformation_mode", "jq_query", "error"}
              /\ result[r].err.Details.jq_query = proxyReq[r].JQQuery
              /\ result[r].err.Details.transformation_mode = proxyReq[r].TransformationMode
              /\ result[r].err.Details.error # <<>>
              /\ result[r].err.Message =
                     <<"Failed to transform response: ">> \o result[r].err.Details.error

\* A query that does not iterate over the decoded string has failed after
\* the forward, and the details carry the engine's error.
C21_Witness ==
    \E r \in Reqs :
        /\ TransformationFailure(r)
        /\ proxyReq[r].JQQuery = ".[]"
        /\ result[r].err.Details.jq_query = ".[]"
        /\ result[r].err.Details.error = <<"jq query execution failed: ", "cannot iterate over">>

\* The last moment the outbound call was waiting on the backend.
LastWait == IF InFlight THEN now ELSE outcall.endedAt

\* C22: an outbound call never waits on the backend for more than 30
\* seconds from the start of forwarding, nor past the moment the context of
\* the inbound request is cancelled.
C22_OutboundCallDeadline ==
    outcall # None =>
        /\ LastWait <= outcall.startedAt + RequestTimeout
        /\ inbound.done => LastWait <= inbound.at

\* A call with no client timeout was given up 30 seconds after it began,
\* the inbound request still being there.
C22_Witness ==
    /\ outcall # None
    /\ outcall.state = "failed"
    /\ outcall.timeout = 0
    /\ ~inbound.done
    /\ outcall.endedAt = outcall.startedAt + RequestTimeout
    /\ outcall.err = "context deadline exceeded"

\* The last lookup of the file provider was answered from the file as it was
\* at the last successful load, or as not found when there was none.
AnswersFromLastLoad ==
    (provider = "file" /\ last # None) =>
        /\ last.call = "GetEndpoint" =>
              IF loadedFrom = None THEN last.answer = [exists |-> FALSE, endpoint |-> None]
              ELSE IF last.name \in DOMAIN loadedFrom.file.endpoints
                  THEN last.answer = [exists |-> TRUE,
                                      endpoint |-> loadedFrom.file.endpoints[last.name]]
                  ELSE last.answer = [exists |-> FALSE, endpoint |-> None]
        /\ last.call = "GetConfig" =>
              IF loadedFrom = None THEN last.answer = NoConfig
              ELSE /\ last.answer.Endpoints = loadedFrom.file.endpoints
                   /\ last.answer.Server = loadedFrom.file.server

\* A LoadConfig or Reload of the file provider that returns no error leaves
\* the provider with the endpoints and the server settings of the file.
SuccessfulLoadTakesFile ==
    (provider = "file" /\ last' # last /\ last'.call \in {"LoadConfig", "Reload"}
         /\ last'.err = "ok") =>
        /\ config'.loaded
        /\ config'.Endpoints = file.endpoints
        /\ config'.Server = file.server
        /\ loadedFrom'.file = file

\* C23: a file provider answers GetEndpoint and GetConfig from the most
\* recent successfully loaded configuration.  Before any successful load
\* every name is not found and there is no configuration; after a
\* successful LoadConfig or Reload the provider holds the endpoints and the
\* server settings of the file as it then was, and every later lookup
\* answers from them until the next successful load.
C23_AnswersFromLastSuccessfulLoad ==
    [](AnswersFromLastLoad) /\ [][SuccessfulLoadTakesFile]_vars

\* After a load of a file with two endpoints and the port 9090, and with
\* the file since rewritten, endpoint b is found.
C23_Witness ==
    /\ provider = "file"
    /\ last # None
    /\ last.call = "GetEndpoint"
    /\ last.name = "b"
    /\ last.answer.exists
    /\ loadedFrom.file = FileWithServer(ServerConfig(9090, 60, 30), EndpointsTwo)
    /\ file # loadedFrom.file

\* C24: for endpoints configured through PROXY_ENDPOINT_{KEY}_TARGET the
\* key, taken as it is, is the map key of the endpoint and the name by
\* which GetEndpoint finds it, whether or not PROXY_ENDPOINT_{KEY}_NAME is
\* set; _NAME only sets the display name, which defaults to the key in
\* lower case with hyphens for underscores.
C24_KeyIsMapKey ==
    (provider = "fullenv" /\ loadedFrom # None) =>
        \A v \in loadedFrom.environ.endpointVars :
            /\ GetEndpoint(fepConfig, v.key).exists
            /\ GetEndpoint(fepConfig, v.key).endpoint.Target = v.target
            /\ GetEndpoint(fepConfig, v.key).endpoint.Name =
                   (IF v.name # "" THEN v.name ELSE DefaultName(v.key))
            /\ (last.call = "GetEndpoint" /\ last.name = v.key) => last.answer.exists

\* The step is a LoadConfig or Reload call that returns an error.
FailedLoad == (\E c \in {"LoadConfig", "Reload"} : ProviderLoadConfig(c)) /\ last'.err # "ok"

\* What GetEndpoint and GetConfig read is the same before and after the step.
VisibleKept ==
    /\ Held' = Held
    /\ \A name \in LookupNames(provider) : GetEndpoint(Held', name) = GetEndpoint(Held, name)

\* C26: for each of the three providers, a LoadConfig or Reload call that
\* returns an error leaves the configuration visible through GetEndpoint and
\* GetConfig as it was before the call.
C26_FailedLoadKeepsConfig == [][FailedLoad => VisibleKept]_vars

\* The same for the file provider and the environment-only provider alone.
FailedLoadKeepsConfigWithoutEnvProvider ==
    [][FailedLoad /\ provider # "env" => VisibleKept]_vars

\* The endpoints the resolver resolves, each with its target.
Resolves(cfg) == [n \in ConfiguredNames(cfg) |-> cfg.Endpoints[n].Target]

\* The step is one of handling a request, not a load or a change of the file.
HandlingStep == \E r \in Reqs : pc'[r] # pc[r]

\* C27: handling a request only reads the resolver: after any step of
\* HandleRequest, the not-found outcome included, the endpoints the resolver
\* resolves and their targets are those of before.
C27_HandlingOnlyReadsResolver == [][HandlingStep => Resolves(config') = Resolves(config)]_vars

\* The same for every step of handling but the listing of the not-found branch.
HandlingButListingOnlyReads ==
    [][HandlingStep /\ ~(\E r \in Reqs : pc[r] = "list") => Resolves(config') = Resolves(config)]_vars

\* The configurations the callers were given and hold.
HeldAddresses == {thread[t].got : t \in DOMAIN thread} \ {0}

\* Each configuration held carries the server settings of the environment.
CarriesEnvSettings ==
    LoadServerConfigFromEnv(environ).err = "ok" =>
        \A a \in HeldAddresses : heap[a].Server = LoadServerConfigFromEnv(environ).server

\* No configuration held changes in the step.
HeldUnmodified == \A a \in HeldAddresses : heap'[a] = heap[a]

\* C28: with the file+environment provider, under any interleaving of
\* LoadConfig, Reload and GetConfig, every configuration a caller obtains
\* carries the server settings of the environment, and no configuration is
\* modified while a caller holds it.
C28_PublishedConfigImmutable == [](CarriesEnvSettings) /\ [][HeldUnmodified]_vars

\* The snapshots the callers hold.
HeldSnapshots == {worker[g].held : g \in {h \in DOMAIN worker : worker[h].held # None}}

\* Reading the snapshot gives the same before and after the step.
SnapshotKept(s) == SnapshotView(s, metrics') = SnapshotView(s, metrics)

\* C25: a snapshot GetMetrics returned is a copy: no later step of a
\* RecordRequest or RecordError call changes its totals or any of its
\* per-endpoint entries.
C25_SnapshotIsACopy == [][\A s \in HeldSnapshots : SnapshotKept(s)]_vars

\* A caller holds a snapshot with an entry the collector has since moved past.
C25_Witness ==
    \E s \in HeldSnapshots : \E n \in DOMAIN s.Endpoints :
        /\ s.Endpoints[n].value.RequestCount > 0
        /\ metrics.endpointMetrics[n].RequestCount > s.Endpoints[n].value.RequestCount
        /\ metrics.requestCount > s.TotalRequests

RECURSIVE SumOver(_, _)
\* The sum of f over the names in S.
SumOver(f, S) ==
    IF S = {} THEN 0
    ELSE LET n == CHOOSE x \in S : TRUE IN f[n] + SumOver(f, S \ {n})

SumRequestCount(view) ==
    SumOver([n \in DOMAIN view.Endpoints |-> view.Endpoints[n].RequestCount], DOMAIN view.Endpoints)

SumErrorCount(view) ==
    SumOver([n \in DOMAIN view.Endpoints |-> view.Endpoints[n].ErrorCount], DOMAIN view.Endpoints)

\* The totals of the snapshot are the sums of its entries and the numbers of
\* the calls completed when it was taken.
SnapshotConsistent(s) ==
    LET view == SnapshotView(s, metrics)
    IN  /\ view.TotalRequests = SumRequestCount(view)
        /\ view.TotalErrors = SumErrorCount(view)
        /\ view.TotalRequests = s.requestsAt
        /\ view.TotalErrors = s.errorsAt

\* C29: in every snapshot, under any interleaving of RecordRequest, RecordError
\* and GetMetrics, the total request count is the sum of the per-endpoint
\* RequestCount, the total error count the sum of the per-endpoint ErrorCount,
\* and each is the number of completed RecordRequest (RecordError) calls.
C29_TotalsAreSums ==
    /\ \A s \in HeldSnapshots : SnapshotConsistent(s)
    /\ \A g \in DOMAIN worker :
           worker[g].pc = "runlock" =>
               /\ worker[g].snap.TotalRequests = completed.requests
               /\ worker[g].snap.TotalErrors = completed.errors

\* A snapshot of two endpoints with a request and an error, taken while the
\* other caller was inside a Record call.
C29_Witness ==
    \E g \in DOMAIN worker :
        /\ worker[g].pc = "runlock"
        /\ worker[g].snap.TotalRequests >= 1
        /\ worker[g].snap.TotalErrors >= 1
        /\ Cardinality(DOMAIN worker[g].snap.Endpoints) = 2
        /\ \E h \in DOMAIN worker : worker[h].pc = "lock"

\* HandleRequest returned an error for request r.
ReturnedError(r) == Returned(r) /\ result[r].err # None

\* C30: every error HandleRequest returns is written with a status of at
\* least 400, never a 1xx, 2xx or 3xx one, also when the backend response
\* that failed had a success status.
C30_ErrorStatusAtLeast400 ==
    \A r \in Reqs : ReturnedError(r) => written[r].statusCode >= 400

\* A response with a success status failed and was written as an error.
C30_Witness ==
    \E r \in Reqs :
        /\ ReturnedError(r)
        /\ result[r].err.kind = "UpstreamError"
        /\ result[r].err.StatusCode < 400
        /\ written[r].statusCode >= 400

====
